---- MODULE Spec2Model ----
(***************************************************************************)
(* Pulse-burst monitor of src/src/pulse_tasks.cpp: the edge interrupt      *)
(* handler pulseBurstISR, the polling task pulseBurstTask and the public   *)
(* calls initPulseBurstModule, createPulseBurstTask,                       *)
(* receivePulseBurstResults and stopPulseBurstTask.                        *)
(*                                                                         *)
(* uint32_t values are kept at their width.  TLC's integers stop at        *)
(* 2^31 - 1, so a uint32_t is a pair <<hi, lo>> of 16-bit halves and the   *)
(* arithmetic below is the unsigned arithmetic of the C code, modulo 2^32. *)
(* float values are IEEE-754 single precision: a record [m, e] standing    *)
(* for m * 2^e with 2^23 <= m < 2^24 (or m = 0), every operation rounded   *)
(* to nearest, ties to even.                                               *)
(***************************************************************************)
EXTENDS Integers, Sequences, FiniteSets, TLC

\* ------------------------------------------------------------ constants

PULSE_MONITOR_PIN == 6
PULSE_BURST_TIMEOUT_US == 2000
PULSE_REPORT_INTERVAL_MS == 1000
avgWindow == 10
FIRST_READING_MIN_DURATION_MS == 3000
MAX_PULSE_COUNT == 40
PollDelayTicks == 10

\* ------------------------------------------------- uint32_t arithmetic

W16 == 256 * 256

\* The uint32_t whose value is the natural number n (n < 2^31).
U32(n) == <<n \div W16, n % W16>>

Zero32 == <<0, 0>>

\* a + b modulo 2^32.
Add32(a, b) ==
  LET lo == a[2] + b[2]
      hi == a[1] + b[1] + (lo \div W16)
  IN  <<hi % W16, lo % W16>>

\* a - b modulo 2^32 (unsigned subtraction).
Sub32(a, b) ==
  LET lo == a[2] - b[2]
      hi == a[1] - b[1] - (IF lo < 0 THEN 1 ELSE 0)
  IN  <<hi % W16, lo % W16>>

\* a > b on unsigned values.
Gt32(a, b) == a[1] > b[1] \/ (a[1] = b[1] /\ a[2] > b[2])

Ge32(a, b) == ~Gt32(b, a)

\* The low 16 bits of n: a uint16_t.
U16(n) == n % W16

\* ------------------------------------------------------ float arithmetic

RECURSIVE Pow2(_)
Pow2(n) == IF n = 0 THEN 1 ELSE 2 * Pow2(n - 1)

F32Zero == [m |-> 0, e |-> 0]

\* Scale p up (doubling) until q <= p; k counts the doublings.
RECURSIVE NormUp(_, _, _)
NormUp(p, q, k) == IF p >= q THEN <<p, k>> ELSE NormUp(2 * p, q, k - 1)

\* Scale q up (doubling) while 2q <= p; k counts the doublings.
RECURSIVE NormDown(_, _, _)
NormDown(p, q, k) == IF p < 2 * q THEN <<q, k>> ELSE NormDown(p, 2 * q, k + 1)

\* n more bits of the quotient r / q (r < q), appended to the bits in acc;
\* the result is <<bits, remainder>>.
RECURSIVE DivBits(_, _, _, _)
DivBits(r, q, n, acc) ==
  IF n = 0 THEN <<acc, r>>
  ELSE IF 2 * r >= q THEN DivBits(2 * r - q, q, n - 1, 2 * acc + 1)
       ELSE DivBits(2 * r, q, n - 1, 2 * acc)

\* The float nearest to p / q (p >= 0, q > 0, both below 2^30), ties to even.
RoundRat(p, q) ==
  IF p = 0 THEN F32Zero
  ELSE
    LET up == NormUp(p, q, 0)
        dn == NormDown(up[1], q, up[2])
        pp == up[1]
        qq == dn[1]
        k  == dn[2]
        d  == DivBits(pp - qq, qq, 23, 1)
        m0 == d[1]
        r  == d[2]
        m1 == IF 2 * r > qq \/ (2 * r = qq /\ m0 % 2 = 1) THEN m0 + 1 ELSE m0
    IN  IF m1 = Pow2(24) THEN [m |-> Pow2(23), e |-> k - 23 + 1]
        ELSE [m |-> m1, e |-> k - 23]

\* (float) of a natural number below 2^30.
F32FromNat(n) == RoundRat(n, 1)

\* (float) of a uint32_t.
F32FromU32(a) ==
  IF a[1] < 8192 THEN F32FromNat(a[1] * W16 + a[2])
  ELSE \* 2^29 <= value < 2^32: drop 3 bits first, keeping a sticky bit
    LET top    == a[1] * 8192 + (a[2] \div 8)
        sticky == IF a[2] % 8 = 0 THEN 0 ELSE 1
        r      == RoundRat(2 * top + sticky, 2)
    IN  [m |-> r.m, e |-> r.e + 3]

\* a / b in float (b # 0).
F32Div(a, b) ==
  LET r == RoundRat(a.m, b.m)
  IN  IF r.m = 0 THEN F32Zero ELSE [m |-> r.m, e |-> r.e + a.e - b.e]

\* (float)n * c in float, for natural numbers whose product is below 2^30.
F32MulNat(n, c) == F32FromNat(n * c)

\* a + b in float.
F32Add(a, b) ==
  IF a.m = 0 THEN b
  ELSE IF b.m = 0 THEN a
  ELSE
    LET hi == IF a.e >= b.e THEN a ELSE b
        lo == IF a.e >= b.e THEN b ELSE a
        d  == hi.e - lo.e
    IN  IF d > 25 THEN hi
        ELSE
          \* three extra bits of hi; lo shifted right by d with a sticky bit
          LET loS   == IF d <= 3 THEN lo.m * Pow2(3 - d)
                       ELSE lo.m \div Pow2(d - 3)
              stick == IF d > 3 /\ lo.m % Pow2(d - 3) # 0 THEN 1 ELSE 0
              sum   == hi.m * 8 + loS
              r     == RoundRat(2 * sum + stick, 2)
          IN  [m |-> r.m, e |-> r.e + hi.e - 3]

\* ------------------------------------------------------------- bounds

\* Edges (handler executions) of one behaviour that starts with the module
\* initialised and its task created.
MaxIsrCalls == 5

\* Edges and public calls of one behaviour that starts before
\* initPulseBurstModule is called.
BootIsrCalls == 2
BootCalls == 4

\* Queues the heap can hold: xQueueCreate returns NULL when all are in use.
MaxQueues == 2

\* Pins initPulseBurstModule is called with: the default, and one that
\* cannot generate interrupts.
Pins == {PULSE_MONITOR_PIN, 255}

\* The timer (us since boot, 48 bits kept) as a behaviour starts: at boot,
\* and for the running module as micros() has just wrapped to 0.
BootClocks == {<<0, 0, 0>>}
RunClocks == {<<1, 0, 0>>}

\* The timing of a behaviour: the amounts (us) by which the clock steps, in
\* order.  Edges, task steps and calls fall between the steps in every way.
Schedules == {<<100, 100, 100, 2200, 10000>>,
              <<10000, 100, 100, 100, 2200, 10000>>}
BootSchedules == {<<10000, 2200, 10000>>}
LongSchedules == {<<2200, 10000, 10000>>}

\* Edges of one behaviour that starts with a long burst under way.
LongIsrCalls == 4

NULL == 0

\* ---------------------------------------------------------------- state

VARIABLES
  clock,              \* the 64-bit microsecond timer, <<bits 47..32, 31..16, 15..0>>
  schedule,           \* the clock steps the behaviour has still to take
  edgesLeft,          \* handler executions the behaviour may still take
  callsLeft,          \* public calls the behaviour may still take
  panic,              \* the firmware aborted (a NULL queue handle was used)
  \* module statics
  pulsePin, pulseResultsQueue, pulseTaskHandle,
  queues,             \* the heap: queue id -> items held (at most 1)
  attachedPins,       \* pins with pulseBurstISR attached
  \* volatile state shared by the handler and the task
  lastEdgeTimeUs, firstPulseTimeUs, burstStartTimeUs, lastBurstEndTimeUs,
  edgeCount, burstActive, notifyTask,
  \* pulseBurstTask: position and locals
  pc, delayFrom, currentTimeUs,
  localBurstActive, localLastEdgeTime, localBurstStartTime, localEdgeCount,
  localFirstPulseTime, localNotifyTask,
  result, previousBurstEnd, wasActive,
  burstCounts, frequencies, firstPulsePeriods, burstDurations, offPeriods,
  avgIndex, validBursts,
  haveFirstReading, firstPulseCount, firstFrequency, firstPulsePeriod,
  firstBurstDuration, firstOffPeriod, firstReadingTimestamp,
  lastReportTime,
  \* what the outside sees
  report,             \* the last rolling average printed
  ret,                \* the last public call and what it returned
  received,           \* what the last receivePulseBurstResults copied out
  peeking,            \* the queue a reader has handed to xQueuePeek, which
                      \* has not returned yet (NULL: no reader inside)
  \* history, for stating properties
  edgeLog,            \* timestamps of the edges handled since the last init
                      \* (or since the behaviour began, if later)
  finalCount,         \* bursts finalized since the task was created
  finalEdges,         \* the snapshot's edgeCount at the last finalization
  validLog            \* window records written since the last invalidation

envVars == <<clock, schedule, edgesLeft, callsLeft, panic>>
moduleVars == <<pulsePin, pulseResultsQueue, pulseTaskHandle, queues, attachedPins>>
sharedVars == <<lastEdgeTimeUs, firstPulseTimeUs, burstStartTimeUs,
                lastBurstEndTimeUs, edgeCount, burstActive, notifyTask>>
snapVars == <<localBurstActive, localLastEdgeTime, localBurstStartTime,
              localEdgeCount, localFirstPulseTime, localNotifyTask>>
windowVars == <<burstCounts, frequencies, firstPulsePeriods, burstDurations,
                offPeriods, avgIndex, validBursts>>
firstVars == <<haveFirstReading, firstPulseCount, firstFrequency, firstPulsePeriod,
               firstBurstDuration, firstOffPeriod, firstReadingTimestamp>>
taskVars == <<pc, delayFrom, currentTimeUs, snapVars, result, previousBurstEnd,
              wasActive, windowVars, firstVars, lastReportTime>>
outVars == <<report, ret, received, peeking, peeking>>
histVars == <<edgeLog, finalCount, finalEdges, validLog>>
vars == <<envVars, moduleVars, sharedVars, taskVars, outVars, histVars>>

\* ---------------------------------------------------------------- clocks

\* The timer d microseconds later (d < 2^31).
AddClock(c, d) ==
  LET lo  == c[3] + (d % W16)
      mid == c[2] + (d \div W16) + (lo \div W16)
      hi  == c[1] + (mid \div W16)
  IN  <<hi % W16, mid % W16, lo % W16>>

\* micros(): the low 32 bits of the timer.
MicrosAt(c) == <<c[2], c[3]>>
Micros == MicrosAt(clock)

\* millis(): the timer divided by 1000, its low 32 bits.
MillisAt(c) ==
  LET t1 == (c[1] % 1000) * W16 + c[2]
      t0 == (t1 % 1000) * W16 + c[3]
  IN  <<t1 \div 1000, t0 \div 1000>>
Millis == MillisAt(clock)

\* xTaskGetTickCount() at the 1 kHz tick rate: one tick per millisecond.
TickCount == Millis

\* digitalPinToInterrupt(): the pin itself, or -1 for a pin without interrupts.
DigitalPinToInterrupt(p) == IF p < 40 THEN p ELSE -1

\* ------------------------------------------------------- initial values

\* PulseBurstResult_t as pulseBurstTask first fills it in.
ResultInit ==
  [burstDurationUs |-> Zero32, offPeriodUs |-> Zero32, pulseCount |-> 0,
   frequencyKHz |-> F32Zero, firstPulsePeriodUs |-> Zero32,
   timestamp |-> Zero32, burstActive |-> FALSE, success |-> FALSE]

ZeroArray(z) == [i \in 1..avgWindow |-> z]

QueuesInit == [q \in 1..MaxQueues |-> [live |-> FALSE, items |-> <<>>]]

\* The snapshot locals and currentTimeUs hold nothing between two cycles of
\* the task's loop: they are written before they are read in every cycle.
SnapCleared ==
  /\ currentTimeUs' = Zero32
  /\ localBurstActive' = FALSE
  /\ localLastEdgeTime' = Zero32
  /\ localBurstStartTime' = Zero32
  /\ localEdgeCount' = 0
  /\ localFirstPulseTime' = Zero32
  /\ localNotifyTask' = FALSE

\* The locals of pulseBurstTask as it initialises them before its loop.
TaskLocalsInit ==
  /\ SnapCleared
  /\ result' = ResultInit
  /\ previousBurstEnd' = Zero32
  /\ wasActive' = FALSE
  /\ burstCounts' = ZeroArray(0)
  /\ frequencies' = ZeroArray(F32Zero)
  /\ firstPulsePeriods' = ZeroArray(Zero32)
  /\ burstDurations' = ZeroArray(Zero32)
  /\ offPeriods' = ZeroArray(Zero32)
  /\ avgIndex' = 0
  /\ validBursts' = 0
  /\ haveFirstReading' = FALSE
  /\ firstPulseCount' = 0
  /\ firstFrequency' = F32Zero
  /\ firstPulsePeriod' = Zero32
  /\ firstBurstDuration' = Zero32
  /\ firstOffPeriod' = Zero32
  /\ firstReadingTimestamp' = Zero32
  /\ finalCount' = 0
  /\ finalEdges' = 0
  /\ validLog' = <<>>

\* The statics of pulse_tasks.cpp as the program starts.
ModuleOff ==
  /\ pulsePin = PULSE_MONITOR_PIN
  /\ pulseResultsQueue = NULL
  /\ pulseTaskHandle = NULL
  /\ queues = QueuesInit
  /\ attachedPins = {}

SharedZero ==
  /\ lastEdgeTimeUs = Zero32
  /\ firstPulseTimeUs = Zero32
  /\ burstStartTimeUs = Zero32
  /\ lastBurstEndTimeUs = Zero32
  /\ edgeCount = 0
  /\ burstActive = FALSE
  /\ notifyTask = FALSE

SnapZero ==
  /\ currentTimeUs = Zero32
  /\ localBurstActive = FALSE
  /\ localLastEdgeTime = Zero32
  /\ localBurstStartTime = Zero32
  /\ localEdgeCount = 0
  /\ localFirstPulseTime = Zero32
  /\ localNotifyTask = FALSE

WindowZero ==
  /\ burstCounts = ZeroArray(0)
  /\ frequencies = ZeroArray(F32Zero)
  /\ firstPulsePeriods = ZeroArray(Zero32)
  /\ burstDurations = ZeroArray(Zero32)
  /\ offPeriods = ZeroArray(Zero32)
  /\ avgIndex = 0
  /\ validBursts = 0

FirstZero ==
  /\ haveFirstReading = FALSE
  /\ firstPulseCount = 0
  /\ firstFrequency = F32Zero
  /\ firstPulsePeriod = Zero32
  /\ firstBurstDuration = Zero32
  /\ firstOffPeriod = Zero32
  /\ firstReadingTimestamp = Zero32

\* No task exists.
TaskOff ==
  /\ pc = "none"
  /\ delayFrom = Zero32
  /\ lastReportTime = Zero32
  /\ SnapZero
  /\ result = ResultInit
  /\ previousBurstEnd = Zero32
  /\ wasActive = FALSE
  /\ WindowZero
  /\ FirstZero

HistZero ==
  /\ edgeLog = <<>>
  /\ finalCount = 0
  /\ finalEdges = 0
  /\ validLog = <<>>

\* The program before initPulseBurstModule is called.
Init ==
  /\ clock \in BootClocks
  /\ schedule \in BootSchedules
  /\ edgesLeft = BootIsrCalls
  /\ callsLeft = BootCalls
  /\ panic = FALSE
  /\ ModuleOff
  /\ SharedZero
  /\ TaskOff
  /\ report = <<>>
  /\ ret = [call |-> "none", ok |-> FALSE]
  /\ received = <<>>
  /\ peeking = NULL
  /\ HistZero

\* The program as initPulseBurstModule(PULSE_MONITOR_PIN) and then
\* createPulseBurstTask() leave it, both having succeeded: the handler is
\* attached, the queue is empty and the task sits in its first vTaskDelay.
InitRun ==
  /\ clock \in RunClocks
  /\ schedule \in Schedules
  /\ edgesLeft = MaxIsrCalls
  /\ callsLeft = 0
  /\ panic = FALSE
  /\ pulsePin = PULSE_MONITOR_PIN
  /\ pulseResultsQueue = 1
  /\ pulseTaskHandle = 1
  /\ queues = [QueuesInit EXCEPT ![1] = [live |-> TRUE, items |-> <<>>]]
  /\ attachedPins = {PULSE_MONITOR_PIN}
  /\ SharedZero
  /\ pc = "delay"
  /\ delayFrom = TickCount
  /\ lastReportTime = TickCount
  /\ SnapZero
  /\ result = ResultInit
  /\ previousBurstEnd = Zero32
  /\ wasActive = FALSE
  /\ WindowZero
  /\ FirstZero
  /\ report = <<>>
  /\ ret = [call |-> "create", ok |-> TRUE]
  /\ received = <<>>
  /\ peeking = NULL
  /\ HistZero

\* ---------------------------------------------------------- environment

\* Time passes.
Tick ==
  /\ ~panic
  /\ schedule # <<>>
  /\ clock' = AddClock(clock, Head(schedule))
  /\ schedule' = Tail(schedule)
  /\ UNCHANGED <<edgesLeft, callsLeft, panic, moduleVars, sharedVars, taskVars, outVars, histVars>>

\* ------------------------------------------------------- pulseBurstISR

\* A handler that also closes the burst when the edge arrives more than the
\* time-out after the previous one.
pulseBurstISR_ClosesBurst ==
  /\ ~panic
  /\ attachedPins # {}
  /\ edgesLeft > 0
  /\ edgesLeft' = edgesLeft - 1
  /\ LET now == Micros IN
       /\ IF ~burstActive
             /\ Gt32(Sub32(now, lastEdgeTimeUs), U32(PULSE_BURST_TIMEOUT_US))
          THEN /\ burstStartTimeUs' = now
               /\ edgeCount' = 1
               /\ burstActive' = TRUE
               /\ firstPulseTimeUs' = Zero32
               /\ notifyTask' = TRUE
          ELSE IF burstActive
          THEN /\ edgeCount' = U16(edgeCount + 1)
               /\ firstPulseTimeUs' =
                    IF edgeCount' = 3 /\ firstPulseTimeUs = Zero32
                    THEN Sub32(now, lastEdgeTimeUs)
                    ELSE firstPulseTimeUs
               /\ burstActive' =
                    ~Gt32(Sub32(now, lastEdgeTimeUs),
                          U32(PULSE_BURST_TIMEOUT_US))
               /\ UNCHANGED <<burstStartTimeUs, notifyTask>>
          ELSE UNCHANGED <<burstStartTimeUs, edgeCount, burstActive,
                           firstPulseTimeUs, notifyTask>>
       /\ lastEdgeTimeUs' = now
       /\ edgeLog' = Append(edgeLog, now)
  /\ UNCHANGED <<clock, schedule, callsLeft, panic, moduleVars,
                 lastBurstEndTimeUs, taskVars,
                 outVars, finalCount, finalEdges, validLog>>

\* One edge on an attached pin: the handler runs to completion inside its
\* critical section.
pulseBurstISR ==
  /\ ~panic
  /\ attachedPins # {}
  /\ edgesLeft > 0
  /\ edgesLeft' = edgesLeft - 1
  /\ LET now == Micros IN
       /\ IF ~burstActive
             /\ Gt32(Sub32(now, lastEdgeTimeUs), U32(PULSE_BURST_TIMEOUT_US))
          THEN /\ burstStartTimeUs' = now
               /\ edgeCount' = 1
               /\ burstActive' = TRUE
               /\ firstPulseTimeUs' = Zero32
               /\ notifyTask' = TRUE
          ELSE IF burstActive
          THEN /\ edgeCount' = U16(edgeCount + 1)
               /\ firstPulseTimeUs' =
                    IF edgeCount' = 3 /\ firstPulseTimeUs = Zero32
                    THEN Sub32(now, lastEdgeTimeUs)
                    ELSE firstPulseTimeUs
               /\ UNCHANGED <<burstStartTimeUs, burstActive, notifyTask>>
          ELSE UNCHANGED <<burstStartTimeUs, edgeCount, burstActive,
                           firstPulseTimeUs, notifyTask>>
       /\ lastEdgeTimeUs' = now
       /\ edgeLog' = Append(edgeLog, now)
  /\ UNCHANGED <<clock, schedule, callsLeft, panic, moduleVars,
                 lastBurstEndTimeUs, taskVars,
                 outVars, finalCount, finalEdges, validLog>>

\* ------------------------------------------------------ pulseBurstTask

\* sum of (float)a[i] over the first n slots, added in index order.
RECURSIVE SumNat(_, _)
SumNat(a, n) == IF n = 0 THEN F32Zero ELSE F32Add(SumNat(a, n - 1), F32FromNat(a[n]))

RECURSIVE SumU32(_, _)
SumU32(a, n) == IF n = 0 THEN F32Zero ELSE F32Add(SumU32(a, n - 1), F32FromU32(a[n]))

RECURSIVE SumF32(_, _)
SumF32(a, n) == IF n = 0 THEN F32Zero ELSE F32Add(SumF32(a, n - 1), a[n])

\* The rolling average the task prints for a window of n valid slots.
RollingAverage(n, counts, freqs, periods, durations, offs, haveFirst) ==
  LET fn == F32FromNat(n) IN
  [bursts |-> n,
   avgPulseCount |-> F32Div(SumNat(counts, n), fn),
   avgFrequency |-> F32Div(SumF32(freqs, n), fn),
   avgFirstPulsePeriod |-> F32Div(SumU32(periods, n), fn),
   avgBurstDuration |-> F32Div(SumU32(durations, n), fn),
   avgOffPeriod |-> F32Div(SumU32(offs, n), fn),
   first |-> haveFirst]

\* A frequency taken per microsecond of the burst: the duration is not
\* converted to milliseconds.
FreqKHz_PerMicrosecond(edges, burstDuration) ==
  IF edges >= 4 /\ Gt32(burstDuration, Zero32)
  THEN F32Div(F32MulNat(edges \div 2, 1000), F32FromU32(burstDuration))
  ELSE F32Zero

\* frequency in kHz of a burst of the given edge count and duration.
FreqKHz(edges, burstDuration) ==
  IF edges >= 4 /\ Gt32(burstDuration, Zero32)
  THEN F32Div(F32MulNat(edges \div 2, 1000),
              F32Div(F32FromU32(burstDuration), F32FromNat(1000)))
  ELSE F32Zero

\* A publish that queues the item behind the ones not yet read.
Publish_Backlog(item) ==
  IF pulseResultsQueue = NULL
  THEN /\ panic' = TRUE
       /\ UNCHANGED queues
  ELSE /\ queues' = [queues EXCEPT ![pulseResultsQueue].items = Append(@, item)]
       /\ UNCHANGED panic

\* xQueueOverwrite on the module's queue; a NULL handle aborts the firmware.
Publish(item) ==
  IF pulseResultsQueue = NULL
  THEN /\ panic' = TRUE
       /\ UNCHANGED queues
  ELSE /\ queues' = [queues EXCEPT ![pulseResultsQueue].items = <<item>>]
       /\ UNCHANGED panic

\* End of a cycle: the periodic report when it is due, then vTaskDelay.
\* Reads the window and the baseline as the cycle leaves them.
ReportAndDelay ==
  /\ IF Ge32(Sub32(TickCount, lastReportTime), U32(PULSE_REPORT_INTERVAL_MS))
        /\ validBursts' > 0
     THEN /\ lastReportTime' = TickCount
          /\ report' = RollingAverage(validBursts', burstCounts', frequencies',
                                      firstPulsePeriods', burstDurations',
                                      offPeriods', haveFirstReading')
     ELSE UNCHANGED <<lastReportTime, report>>
  /\ SnapCleared
  /\ pc' = "delay"
  /\ delayFrom' = TickCount

\* vTaskDelay(10 ms) has elapsed; the task reads micros().
TaskWake ==
  /\ ~panic
  /\ pc = "delay"
  /\ Ge32(Sub32(TickCount, delayFrom), U32(PollDelayTicks))
  /\ currentTimeUs' = Micros
  /\ pc' = "snap"
  /\ UNCHANGED <<envVars, moduleVars, sharedVars, delayFrom, snapVars, result,
                 previousBurstEnd, wasActive, windowVars, firstVars,
                 lastReportTime, outVars, histVars>>

\* A snapshot that leaves notifyTask set.
TaskSnapshot_KeepsNotify ==
  /\ ~panic
  /\ pc = "snap"
  /\ localBurstActive' = burstActive
  /\ localLastEdgeTime' = lastEdgeTimeUs
  /\ localBurstStartTime' = burstStartTimeUs
  /\ localEdgeCount' = edgeCount
  /\ localFirstPulseTime' = firstPulseTimeUs
  /\ localNotifyTask' = notifyTask
  /\ pc' = "check"
  /\ UNCHANGED <<envVars, moduleVars, sharedVars, delayFrom, currentTimeUs,
                 result, previousBurstEnd, wasActive, windowVars, firstVars,
                 lastReportTime, outVars, histVars>>

\* A snapshot that reads lastEdgeTimeUs as it was before the latest edge and
\* the other fields as they are after it.
TaskSnapshot_TornRead ==
  /\ ~panic
  /\ pc = "snap"
  /\ localBurstActive' = burstActive
  /\ localLastEdgeTime' = IF Len(edgeLog) >= 2 THEN edgeLog[Len(edgeLog) - 1]
                          ELSE lastEdgeTimeUs
  /\ localBurstStartTime' = burstStartTimeUs
  /\ localEdgeCount' = edgeCount
  /\ localFirstPulseTime' = firstPulseTimeUs
  /\ localNotifyTask' = notifyTask
  /\ notifyTask' = FALSE
  /\ pc' = "check"
  /\ UNCHANGED <<envVars, moduleVars, lastEdgeTimeUs, firstPulseTimeUs,
                 burstStartTimeUs, lastBurstEndTimeUs, edgeCount, burstActive,
                 delayFrom, currentTimeUs, result, previousBurstEnd, wasActive,
                 windowVars, firstVars, lastReportTime, outVars, histVars>>

\* The critical section that copies the shared state and clears notifyTask.
TaskSnapshot ==
  /\ ~panic
  /\ pc = "snap"
  /\ localBurstActive' = burstActive
  /\ localLastEdgeTime' = lastEdgeTimeUs
  /\ localBurstStartTime' = burstStartTimeUs
  /\ localEdgeCount' = edgeCount
  /\ localFirstPulseTime' = firstPulseTimeUs
  /\ localNotifyTask' = notifyTask
  /\ notifyTask' = FALSE
  /\ pc' = "check"
  /\ UNCHANGED <<envVars, moduleVars, lastEdgeTimeUs, firstPulseTimeUs,
                 burstStartTimeUs, lastBurstEndTimeUs, edgeCount, burstActive,
                 delayFrom, currentTimeUs, result, previousBurstEnd, wasActive,
                 windowVars, firstVars, lastReportTime, outVars, histVars>>

\* A burst-end test without the timeout: any active snapshot ends the burst.
BurstEnded_AnyActive == localBurstActive

\* A burst-end test with a timeout longer than the polling period.
BurstEnded_LongTimeout ==
  /\ localBurstActive
  /\ Gt32(Sub32(currentTimeUs, localLastEdgeTime), U32(PULSE_BURST_TIMEOUT_US * PollDelayTicks))

\* The test that decides a burst ended: a timeout since the last edge seen.
BurstEnded ==
  /\ localBurstActive
  /\ Gt32(Sub32(currentTimeUs, localLastEdgeTime), U32(PULSE_BURST_TIMEOUT_US))

\* Burst just ended: the critical section that clears burstActive.
TaskBurstEnd ==
  /\ ~panic
  /\ pc = "check"
  /\ BurstEnded
  /\ burstActive' = FALSE
  /\ lastBurstEndTimeUs' = currentTimeUs
  /\ pc' = "process"
  /\ finalCount' = finalCount + 1
  /\ finalEdges' = localEdgeCount
  /\ UNCHANGED <<envVars, moduleVars, lastEdgeTimeUs, firstPulseTimeUs,
                 burstStartTimeUs, edgeCount, notifyTask, delayFrom,
                 currentTimeUs, snapVars, result, previousBurstEnd, wasActive,
                 windowVars, firstVars, lastReportTime, outVars, edgeLog, validLog>>

\* A record whose pulse count rounds the half edge count up.
BurstRecord_RoundsUp ==
  LET burstDuration == IF Gt32(currentTimeUs, localBurstStartTime)
                       THEN Sub32(currentTimeUs, localBurstStartTime)
                       ELSE Zero32
      offPeriod == IF Gt32(previousBurstEnd, Zero32)
                      /\ Gt32(localBurstStartTime, previousBurstEnd)
                   THEN Sub32(localBurstStartTime, previousBurstEnd)
                   ELSE Zero32
  IN  [burstDurationUs |-> burstDuration,
       offPeriodUs |-> offPeriod,
       pulseCount |-> (localEdgeCount + 1) \div 2,
       frequencyKHz |-> FreqKHz(localEdgeCount, burstDuration),
       firstPulsePeriodUs |-> localFirstPulseTime,
       timestamp |-> Millis,
       burstActive |-> FALSE,
       success |-> TRUE]

\* The record of the burst that ended, from the snapshot.
BurstRecord ==
  LET burstDuration == IF Gt32(currentTimeUs, localBurstStartTime)
                       THEN Sub32(currentTimeUs, localBurstStartTime)
                       ELSE Zero32
      offPeriod == IF Gt32(previousBurstEnd, Zero32)
                      /\ Gt32(localBurstStartTime, previousBurstEnd)
                   THEN Sub32(localBurstStartTime, previousBurstEnd)
                   ELSE Zero32
  IN  [burstDurationUs |-> burstDuration,
       offPeriodUs |-> offPeriod,
       pulseCount |-> localEdgeCount \div 2,
       frequencyKHz |-> FreqKHz(localEdgeCount, burstDuration),
       firstPulsePeriodUs |-> localFirstPulseTime,
       timestamp |-> Millis,
       burstActive |-> FALSE,
       success |-> TRUE]

\* An outlier test that also rejects a burst of exactly MAX_PULSE_COUNT pulses.
TooManyPulses_AtLimit(pulseCount) == pulseCount >= MAX_PULSE_COUNT

\* The outlier test on a record's pulse count.
TooManyPulses(pulseCount) == pulseCount > MAX_PULSE_COUNT

\* A hold test without the hold: any first reading older than 0 ms expires.
FirstReadingExpired_NoHold == Gt32(Sub32(Millis, firstReadingTimestamp), Zero32)

\* The hold test: the first reading may be dropped.
FirstReadingExpired ==
  Gt32(Sub32(Millis, firstReadingTimestamp), U32(FIRST_READING_MIN_DURATION_MS))

\* The window slot a record fills.
SlotOf(r) ==
  [pulseCount |-> r.pulseCount, frequency |-> r.frequencyKHz,
   firstPulsePeriod |-> r.firstPulsePeriodUs, burstDuration |-> r.burstDurationUs,
   offPeriod |-> r.offPeriodUs]

\* An invalidation that zeroes the slots but keeps validBursts and avgIndex.
RejectBurst_KeepsCount ==
  /\ burstCounts' = ZeroArray(0)
  /\ frequencies' = ZeroArray(F32Zero)
  /\ firstPulsePeriods' = ZeroArray(Zero32)
  /\ burstDurations' = ZeroArray(Zero32)
  /\ offPeriods' = ZeroArray(Zero32)
  /\ UNCHANGED <<validBursts, avgIndex>>
  /\ haveFirstReading' = IF haveFirstReading
                            /\ Gt32(Sub32(Millis, firstReadingTimestamp),
                                    U32(FIRST_READING_MIN_DURATION_MS))
                         THEN FALSE ELSE haveFirstReading
  /\ UNCHANGED <<firstPulseCount, firstFrequency, firstPulsePeriod,
                 firstBurstDuration, firstOffPeriod, firstReadingTimestamp>>
  /\ validLog' = <<>>

\* Too many pulses: the window is cleared, the first reading dropped if old.
RejectBurst ==
  /\ burstCounts' = ZeroArray(0)
  /\ frequencies' = ZeroArray(F32Zero)
  /\ firstPulsePeriods' = ZeroArray(Zero32)
  /\ burstDurations' = ZeroArray(Zero32)
  /\ offPeriods' = ZeroArray(Zero32)
  /\ validBursts' = 0
  /\ avgIndex' = 0
  /\ haveFirstReading' = IF haveFirstReading /\ FirstReadingExpired
                         THEN FALSE ELSE haveFirstReading
  /\ UNCHANGED <<firstPulseCount, firstFrequency, firstPulsePeriod,
                 firstBurstDuration, firstOffPeriod, firstReadingTimestamp>>
  /\ validLog' = <<>>

\* A valid burst whose write index runs on past the end of the window.
RecordBurst_NoWrap(r) ==
  /\ burstCounts' = [burstCounts EXCEPT ![avgIndex + 1] = r.pulseCount]
  /\ frequencies' = [frequencies EXCEPT ![avgIndex + 1] = r.frequencyKHz]
  /\ firstPulsePeriods' = [firstPulsePeriods EXCEPT ![avgIndex + 1] = r.firstPulsePeriodUs]
  /\ burstDurations' = [burstDurations EXCEPT ![avgIndex + 1] = r.burstDurationUs]
  /\ offPeriods' = [offPeriods EXCEPT ![avgIndex + 1] = r.offPeriodUs]
  /\ IF ~haveFirstReading
     THEN /\ firstPulseCount' = r.pulseCount
          /\ firstFrequency' = r.frequencyKHz
          /\ firstPulsePeriod' = r.firstPulsePeriodUs
          /\ firstBurstDuration' = r.burstDurationUs
          /\ firstOffPeriod' = r.offPeriodUs
          /\ firstReadingTimestamp' = Millis
          /\ haveFirstReading' = TRUE
     ELSE UNCHANGED firstVars
  /\ avgIndex' = avgIndex + 1
  /\ validBursts' = IF validBursts < avgWindow THEN validBursts + 1 ELSE validBursts
  /\ validLog' = Append(validLog, SlotOf(r))

\* A valid burst that replaces the first reading held.
RecordBurst_AlwaysCaptures(r) ==
  /\ burstCounts' = [burstCounts EXCEPT ![avgIndex + 1] = r.pulseCount]
  /\ frequencies' = [frequencies EXCEPT ![avgIndex + 1] = r.frequencyKHz]
  /\ firstPulsePeriods' = [firstPulsePeriods EXCEPT ![avgIndex + 1] = r.firstPulsePeriodUs]
  /\ burstDurations' = [burstDurations EXCEPT ![avgIndex + 1] = r.burstDurationUs]
  /\ offPeriods' = [offPeriods EXCEPT ![avgIndex + 1] = r.offPeriodUs]
  /\ firstPulseCount' = r.pulseCount
  /\ firstFrequency' = r.frequencyKHz
  /\ firstPulsePeriod' = r.firstPulsePeriodUs
  /\ firstBurstDuration' = r.burstDurationUs
  /\ firstOffPeriod' = r.offPeriodUs
  /\ firstReadingTimestamp' = Millis
  /\ haveFirstReading' = TRUE
  /\ avgIndex' = (avgIndex + 1) % avgWindow
  /\ validBursts' = IF validBursts < avgWindow THEN validBursts + 1 ELSE validBursts
  /\ validLog' = Append(validLog, SlotOf(r))

\* A valid burst: written at avgIndex, and kept as first reading if none is held.
RecordBurst(r) ==
  /\ burstCounts' = [burstCounts EXCEPT ![avgIndex + 1] = r.pulseCount]
  /\ frequencies' = [frequencies EXCEPT ![avgIndex + 1] = r.frequencyKHz]
  /\ firstPulsePeriods' = [firstPulsePeriods EXCEPT ![avgIndex + 1] = r.firstPulsePeriodUs]
  /\ burstDurations' = [burstDurations EXCEPT ![avgIndex + 1] = r.burstDurationUs]
  /\ offPeriods' = [offPeriods EXCEPT ![avgIndex + 1] = r.offPeriodUs]
  /\ IF ~haveFirstReading
     THEN /\ firstPulseCount' = r.pulseCount
          /\ firstFrequency' = r.frequencyKHz
          /\ firstPulsePeriod' = r.firstPulsePeriodUs
          /\ firstBurstDuration' = r.burstDurationUs
          /\ firstOffPeriod' = r.offPeriodUs
          /\ firstReadingTimestamp' = Millis
          /\ haveFirstReading' = TRUE
     ELSE UNCHANGED firstVars
  /\ avgIndex' = (avgIndex + 1) % avgWindow
  /\ validBursts' = IF validBursts < avgWindow THEN validBursts + 1 ELSE validBursts
  /\ validLog' = Append(validLog, SlotOf(r))

\* A burst-end branch that leaves wasActive as it is.
TaskProcessBurst_KeepsWasActive ==
  /\ ~panic
  /\ pc = "process"
  /\ result' = BurstRecord
  /\ IF TooManyPulses(result'.pulseCount) THEN RejectBurst ELSE RecordBurst(result')
  /\ previousBurstEnd' = currentTimeUs
  /\ Publish(result')
  /\ ReportAndDelay
  /\ UNCHANGED <<clock, schedule, edgesLeft, callsLeft, pulsePin, pulseResultsQueue,
                 pulseTaskHandle, attachedPins, sharedVars, wasActive, ret, received, peeking,
                 edgeLog, finalCount, finalEdges>>

\* A burst-end branch that publishes only the bursts it records.
TaskProcessBurst_SkipsOutlier ==
  /\ ~panic
  /\ pc = "process"
  /\ result' = BurstRecord
  /\ IF TooManyPulses(result'.pulseCount)
     THEN RejectBurst /\ UNCHANGED <<queues, panic>>
     ELSE RecordBurst(result') /\ Publish(result')
  /\ previousBurstEnd' = currentTimeUs
  /\ wasActive' = FALSE
  /\ ReportAndDelay
  /\ UNCHANGED <<clock, schedule, edgesLeft, callsLeft, pulsePin, pulseResultsQueue,
                 pulseTaskHandle, attachedPins, sharedVars, ret, received, peeking,
                 edgeLog, finalCount, finalEdges>>

\* The rest of the burst-end branch: the record, the window, the publish.
TaskProcessBurst ==
  /\ ~panic
  /\ pc = "process"
  /\ result' = BurstRecord
  /\ IF TooManyPulses(result'.pulseCount) THEN RejectBurst ELSE RecordBurst(result')
  /\ previousBurstEnd' = currentTimeUs
  /\ Publish(result')
  /\ wasActive' = FALSE
  /\ ReportAndDelay
  /\ UNCHANGED <<clock, schedule, edgesLeft, callsLeft, pulsePin, pulseResultsQueue,
                 pulseTaskHandle, attachedPins, sharedVars, ret, received, peeking,
                 edgeLog, finalCount, finalEdges>>

\* A new burst started: publish the active status.
TaskBurstStart ==
  /\ ~panic
  /\ pc = "check"
  /\ ~BurstEnded
  /\ localNotifyTask /\ ~wasActive
  /\ result' = [result EXCEPT !.burstActive = TRUE, !.success = TRUE]
  /\ Publish(result')
  /\ wasActive' = TRUE
  /\ UNCHANGED <<clock, schedule, edgesLeft, callsLeft, pulsePin, pulseResultsQueue,
                 pulseTaskHandle, attachedPins, sharedVars, previousBurstEnd,
                 windowVars, firstVars, ret, received, peeking, histVars>>
  /\ ReportAndDelay

\* Neither branch is taken.
TaskNoEvent ==
  /\ ~panic
  /\ pc = "check"
  /\ ~BurstEnded
  /\ ~(localNotifyTask /\ ~wasActive)
  /\ UNCHANGED <<envVars, moduleVars, sharedVars, result, previousBurstEnd,
                 wasActive, windowVars, firstVars, ret, received, peeking, histVars>>
  /\ ReportAndDelay

\* --------------------------------------------------------- public calls

\* xQueueCreate: the lowest free queue, or NULL when the heap has none left
\* or the allocation fails.
FreeQueues == {q \in 1..MaxQueues : ~queues[q].live}

NewQueue(allocOk) ==
  IF allocOk /\ FreeQueues # {}
  THEN CHOOSE q \in FreeQueues : \A o \in FreeQueues : q <= o
  ELSE NULL

initPulseBurstModule(monitorPin, allocOk) ==
  /\ ~panic
  /\ callsLeft > 0
  /\ callsLeft' = callsLeft - 1
  /\ pulsePin' = monitorPin
  /\ LET q == NewQueue(allocOk) IN
       IF q = NULL
       THEN /\ pulseResultsQueue' = NULL
            /\ ret' = [call |-> "init", ok |-> FALSE]
            /\ UNCHANGED <<queues, attachedPins, sharedVars, edgeLog>>
       ELSE IF DigitalPinToInterrupt(monitorPin) < 0
       THEN /\ pulseResultsQueue' = NULL
            /\ ret' = [call |-> "init", ok |-> FALSE]
            /\ UNCHANGED <<queues, attachedPins, sharedVars, edgeLog>>
       ELSE /\ pulseResultsQueue' = q
            /\ queues' = [queues EXCEPT ![q] = [live |-> TRUE, items |-> <<>>]]
            /\ lastEdgeTimeUs' = Zero32
            /\ firstPulseTimeUs' = Zero32
            /\ burstStartTimeUs' = Zero32
            /\ lastBurstEndTimeUs' = Zero32
            /\ edgeCount' = 0
            /\ burstActive' = FALSE
            /\ notifyTask' = FALSE
            /\ attachedPins' = attachedPins \cup {DigitalPinToInterrupt(monitorPin)}
            /\ ret' = [call |-> "init", ok |-> TRUE]
            /\ edgeLog' = <<>>
  /\ UNCHANGED <<clock, schedule, edgesLeft, panic, pulseTaskHandle, taskVars,
                 report, received, peeking, finalCount, finalEdges, validLog>>

\* A create that does not test whether the module is initialised.
createPulseBurstTask_NoInitCheck(taskOk) ==
  /\ ~panic
  /\ callsLeft > 0
  /\ callsLeft' = callsLeft - 1
  /\ IF pulseTaskHandle # NULL
     THEN /\ ret' = [call |-> "create", ok |-> TRUE]
          /\ UNCHANGED <<pulseTaskHandle, taskVars, finalCount, finalEdges, validLog>>
     ELSE IF ~taskOk
     THEN /\ ret' = [call |-> "create", ok |-> FALSE]
          /\ UNCHANGED <<pulseTaskHandle, taskVars, finalCount, finalEdges, validLog>>
     ELSE /\ pulseTaskHandle' = 1
          /\ TaskLocalsInit
          /\ lastReportTime' = TickCount
          /\ pc' = "delay"
          /\ delayFrom' = TickCount
          /\ ret' = [call |-> "create", ok |-> TRUE]
  /\ UNCHANGED <<clock, schedule, edgesLeft, panic, pulsePin, pulseResultsQueue,
                 queues, attachedPins, sharedVars, report, received, peeking, edgeLog>>

createPulseBurstTask(taskOk) ==
  /\ ~panic
  /\ callsLeft > 0
  /\ callsLeft' = callsLeft - 1
  /\ IF pulseResultsQueue = NULL
     THEN /\ ret' = [call |-> "create", ok |-> FALSE]
          /\ UNCHANGED <<pulseTaskHandle, taskVars, finalCount, finalEdges, validLog>>
     ELSE IF pulseTaskHandle # NULL
     THEN /\ ret' = [call |-> "create", ok |-> TRUE]
          /\ UNCHANGED <<pulseTaskHandle, taskVars, finalCount, finalEdges, validLog>>
     ELSE IF ~taskOk
     THEN /\ ret' = [call |-> "create", ok |-> FALSE]
          /\ UNCHANGED <<pulseTaskHandle, taskVars, finalCount, finalEdges, validLog>>
     ELSE /\ pulseTaskHandle' = 1
          /\ TaskLocalsInit
          /\ lastReportTime' = TickCount
          /\ pc' = "delay"
          /\ delayFrom' = TickCount
          /\ ret' = [call |-> "create", ok |-> TRUE]
  /\ UNCHANGED <<clock, schedule, edgesLeft, panic, pulsePin, pulseResultsQueue,
                 queues, attachedPins, sharedVars, report, received, peeking, edgeLog>>

\* A read that takes the item out of the queue (xQueueReceive).
receivePulseBurstResults_Removes(resultIsNull) ==
  /\ ~panic
  /\ callsLeft > 0
  /\ callsLeft' = callsLeft - 1
  /\ IF resultIsNull \/ pulseResultsQueue = NULL
     THEN /\ ret' = [call |-> "receive", ok |-> FALSE]
          /\ UNCHANGED <<received, queues>>
     ELSE IF queues[pulseResultsQueue].items = <<>>
     THEN /\ ret' = [call |-> "receive", ok |-> FALSE]
          /\ UNCHANGED <<received, queues>>
     ELSE /\ ret' = [call |-> "receive", ok |-> TRUE]
          /\ received' = queues[pulseResultsQueue].items
          /\ queues' = [queues EXCEPT ![pulseResultsQueue].items = <<>>]
  /\ UNCHANGED <<clock, schedule, edgesLeft, panic, pulsePin, pulseResultsQueue,
                 pulseTaskHandle, attachedPins, sharedVars, taskVars, report,
                 peeking, histVars>>

receivePulseBurstResults(resultIsNull) ==
  /\ ~panic
  /\ callsLeft > 0
  /\ callsLeft' = callsLeft - 1
  /\ IF resultIsNull \/ pulseResultsQueue = NULL
     THEN /\ ret' = [call |-> "receive", ok |-> FALSE]
          /\ UNCHANGED received
     ELSE IF queues[pulseResultsQueue].items = <<>>
     THEN /\ ret' = [call |-> "receive", ok |-> FALSE]
          /\ UNCHANGED received
     ELSE /\ ret' = [call |-> "receive", ok |-> TRUE]
          /\ received' = queues[pulseResultsQueue].items
  /\ UNCHANGED <<clock, schedule, edgesLeft, panic, moduleVars, sharedVars,
                 taskVars, report, peeking, histVars>>

\* receivePulseBurstResults in the two steps a reader that can be pre-empted
\* takes.  First the test of its arguments and of the queue handle: the call
\* returns false at once, or goes on to xQueuePeek with the handle it read.
receiveCheck(resultIsNull) ==
  /\ ~panic
  /\ callsLeft > 0
  /\ peeking = NULL
  /\ callsLeft' = callsLeft - 1
  /\ IF resultIsNull \/ pulseResultsQueue = NULL
     THEN /\ ret' = [call |-> "receive", ok |-> FALSE]
          /\ UNCHANGED peeking
     ELSE /\ peeking' = pulseResultsQueue
          /\ UNCHANGED ret
  /\ UNCHANGED <<clock, schedule, edgesLeft, panic, moduleVars, sharedVars,
                 taskVars, report, received, histVars>>

\* What the storage of a deleted queue may give a reader.
Freed == {ResultInit, [ResultInit EXCEPT !.success = TRUE]}

\* Then xQueuePeek returns: with a copy of the item, or with nothing when
\* the queue stayed empty for the whole timeout.  On a queue that has been
\* deleted meanwhile the call reads freed memory: it may abort the firmware,
\* fail, or pass with whatever the storage holds.
receivePeek ==
  /\ ~panic
  /\ peeking # NULL
  /\ peeking' = NULL
  /\ IF queues[peeking].live
     THEN /\ IF queues[peeking].items = <<>>
             THEN /\ ret' = [call |-> "receive", ok |-> FALSE]
                  /\ UNCHANGED received
             ELSE /\ ret' = [call |-> "receive", ok |-> TRUE]
                  /\ received' = queues[peeking].items
          /\ UNCHANGED panic
     ELSE \E crash \in BOOLEAN, ok \in BOOLEAN, item \in Freed :
            /\ panic' = crash
            /\ ret' = [call |-> "receive", ok |-> ok /\ ~crash]
            /\ received' = IF ok /\ ~crash THEN <<item>> ELSE received
  /\ UNCHANGED <<clock, schedule, edgesLeft, callsLeft, moduleVars, sharedVars,
                 taskVars, report, histVars>>

\* A stop that deletes the task but forgets the queue.
stopPulseBurstTask_KeepsQueue ==
  /\ ~panic
  /\ callsLeft > 0
  /\ callsLeft' = callsLeft - 1
  /\ IF pulseTaskHandle = NULL
     THEN UNCHANGED <<moduleVars, taskVars, finalCount, finalEdges, validLog>>
     ELSE /\ attachedPins' = attachedPins \ {DigitalPinToInterrupt(pulsePin)}
          /\ pulseTaskHandle' = NULL
          /\ pc' = "none"
          /\ delayFrom' = Zero32
          /\ lastReportTime' = Zero32
          /\ TaskLocalsInit
          /\ UNCHANGED <<queues, pulseResultsQueue, pulsePin>>
  /\ ret' = [call |-> "stop", ok |-> TRUE]
  /\ UNCHANGED <<clock, schedule, edgesLeft, panic, sharedVars, report,
                 received, peeking, edgeLog>>

stopPulseBurstTask ==
  /\ ~panic
  /\ callsLeft > 0
  /\ callsLeft' = callsLeft - 1
  /\ IF pulseTaskHandle = NULL
     THEN UNCHANGED <<moduleVars, taskVars, finalCount, finalEdges, validLog>>
     ELSE /\ attachedPins' = attachedPins \ {DigitalPinToInterrupt(pulsePin)}
          /\ pulseTaskHandle' = NULL
          /\ pc' = "none"
          /\ delayFrom' = Zero32
          /\ lastReportTime' = Zero32
          /\ TaskLocalsInit
          /\ IF pulseResultsQueue # NULL
             THEN queues' = [queues EXCEPT ![pulseResultsQueue] =
                                [live |-> FALSE, items |-> <<>>]]
             ELSE UNCHANGED queues
          /\ pulseResultsQueue' = NULL
          /\ UNCHANGED pulsePin
  /\ ret' = [call |-> "stop", ok |-> TRUE]
  /\ UNCHANGED <<clock, schedule, edgesLeft, panic, sharedVars, report,
                 received, peeking, edgeLog>>

\* ------------------------------------------------------- a later start

\* The module some time into a run that began as InitRun does.  Edges at
\* 10000, 10100, 10200 and 10300 us made a first burst, which the task
\* finalized in the cycle it began at 12500 us (FirstBurstEnd): FirstBurst
\* is its record, the only slot of the window and the first reading.
FirstBurstEnd == <<1, 0, 12500>>

FirstBurst ==
  [burstDurationUs |-> U32(2500), offPeriodUs |-> Zero32, pulseCount |-> 2,
   frequencyKHz |-> FreqKHz(4, U32(2500)), firstPulsePeriodUs |-> U32(100),
   timestamp |-> MillisAt(FirstBurstEnd), burstActive |-> FALSE, success |-> TRUE]

\* The moments a behaviour with a long burst under way starts at: `now' is
\* the timer, `slept' the timer as the task last entered vTaskDelay,
\* `reported' the tick of the last report (the tick the task was created at
\* when none was due yet).  The first is 10 ms after FirstBurstEnd, the
\* second 3 s later, two reports having been printed.
LongStarts ==
  {[now |-> <<1, 0, 22500>>, slept |-> FirstBurstEnd,
    reported |-> MillisAt(<<1, 0, 0>>), printed |-> FALSE],
   [now |-> <<1, 45, 60880>>, slept |-> <<1, 45, 51880>>,
    reported |-> Add32(MillisAt(<<1, 0, 0>>), U32(2005)), printed |-> TRUE]}

\* The burst under way has had 2 * MAX_PULSE_COUNT - 1 edges, 100 us apart,
\* the last one now; the task has slept since before its first edge.
InitLong ==
  /\ \E s \in LongStarts :
       /\ clock = s.now
       /\ delayFrom = MillisAt(s.slept)
       /\ lastReportTime = s.reported
       /\ report = IF s.printed
                   THEN RollingAverage(1, [ZeroArray(0) EXCEPT ![1] = 2],
                          [ZeroArray(F32Zero) EXCEPT ![1] = FirstBurst.frequencyKHz],
                          [ZeroArray(Zero32) EXCEPT ![1] = U32(100)],
                          [ZeroArray(Zero32) EXCEPT ![1] = U32(2500)],
                          ZeroArray(Zero32), TRUE)
                   ELSE <<>>
       /\ lastEdgeTimeUs = MicrosAt(s.now)
       /\ burstStartTimeUs = Sub32(MicrosAt(s.now), U32(100 * (2 * MAX_PULSE_COUNT - 2)))
  /\ schedule \in LongSchedules
  /\ edgesLeft = LongIsrCalls
  /\ callsLeft = 0
  /\ panic = FALSE
  /\ pulsePin = PULSE_MONITOR_PIN
  /\ pulseResultsQueue = 1
  /\ pulseTaskHandle = 1
  /\ queues = [QueuesInit EXCEPT ![1] = [live |-> TRUE, items |-> <<FirstBurst>>]]
  /\ attachedPins = {PULSE_MONITOR_PIN}
  /\ firstPulseTimeUs = U32(100)
  /\ lastBurstEndTimeUs = MicrosAt(FirstBurstEnd)
  /\ edgeCount = 2 * MAX_PULSE_COUNT - 1
  /\ burstActive = TRUE
  /\ notifyTask = TRUE
  /\ pc = "delay"
  /\ SnapZero
  /\ result = FirstBurst
  /\ previousBurstEnd = MicrosAt(FirstBurstEnd)
  /\ wasActive = FALSE
  /\ burstCounts = [ZeroArray(0) EXCEPT ![1] = 2]
  /\ frequencies = [ZeroArray(F32Zero) EXCEPT ![1] = FirstBurst.frequencyKHz]
  /\ firstPulsePeriods = [ZeroArray(Zero32) EXCEPT ![1] = U32(100)]
  /\ burstDurations = [ZeroArray(Zero32) EXCEPT ![1] = U32(2500)]
  /\ offPeriods = ZeroArray(Zero32)
  /\ avgIndex = 1
  /\ validBursts = 1
  /\ haveFirstReading = TRUE
  /\ firstPulseCount = 2
  /\ firstFrequency = FirstBurst.frequencyKHz
  /\ firstPulsePeriod = U32(100)
  /\ firstBurstDuration = U32(2500)
  /\ firstOffPeriod = Zero32
  /\ firstReadingTimestamp = MillisAt(FirstBurstEnd)
  /\ ret = [call |-> "create", ok |-> TRUE]
  /\ received = <<>>
  /\ peeking = NULL
  /\ edgeLog = <<>>
  /\ finalCount = 1
  /\ finalEdges = 4
  /\ validLog = <<SlotOf(FirstBurst)>>

\* Public calls and edges of one behaviour in which a reader and a stop run
\* beside the task.
RaceCalls == 2
RaceIsrCalls == 2

RaceSchedules == {<<10000, 10000>>}

\* The module as InitRun has it, with a reader task and a task that may call
\* stopPulseBurstTask about to run.
InitRace ==
  /\ clock \in RunClocks
  /\ schedule \in RaceSchedules
  /\ edgesLeft = RaceIsrCalls
  /\ callsLeft = RaceCalls
  /\ panic = FALSE
  /\ pulsePin = PULSE_MONITOR_PIN
  /\ pulseResultsQueue = 1
  /\ pulseTaskHandle = 1
  /\ queues = [QueuesInit EXCEPT ![1] = [live |-> TRUE, items |-> <<>>]]
  /\ attachedPins = {PULSE_MONITOR_PIN}
  /\ SharedZero
  /\ pc = "delay"
  /\ delayFrom = TickCount
  /\ lastReportTime = TickCount
  /\ SnapZero
  /\ result = ResultInit
  /\ previousBurstEnd = Zero32
  /\ wasActive = FALSE
  /\ WindowZero
  /\ FirstZero
  /\ report = <<>>
  /\ ret = [call |-> "create", ok |-> TRUE]
  /\ received = <<>>
  /\ peeking = NULL
  /\ HistZero

\* The edges of a burst that has lasted long enough for the handler's 16-bit
\* counter to be at its last value.
HugeEdges == W16 - 1

\* Edges of one behaviour that starts with such a burst under way.
HugeIsrCalls == 3

HugeSchedules == {<<10000, 10000, 10000>>}

\* The burst began 100 ms after the start of the run; its edges are 100 us
\* apart, the last one at HugeNow; the task entered vTaskDelay one poll
\* period before that, at HugeSlept, 100 edges earlier.
HugeStart == <<1, 1, 34464>>
HugeNow == AddClock(HugeStart, 100 * (HugeEdges - 1))
HugeSlept == AddClock(HugeStart, 100 * (HugeEdges - 101))

\* The module with that burst under way: FirstBurst was finalized long ago,
\* the task has published the start of the long burst and polls it every
\* cycle, six reports have been printed.
InitHuge ==
  /\ clock = HugeNow
  /\ delayFrom = MillisAt(HugeSlept)
  /\ lastReportTime = Add32(MillisAt(<<1, 0, 0>>), U32(6030))
  /\ report = RollingAverage(1, [ZeroArray(0) EXCEPT ![1] = 2],
                 [ZeroArray(F32Zero) EXCEPT ![1] = FirstBurst.frequencyKHz],
                 [ZeroArray(Zero32) EXCEPT ![1] = U32(100)],
                 [ZeroArray(Zero32) EXCEPT ![1] = U32(2500)],
                 ZeroArray(Zero32), TRUE)
  /\ lastEdgeTimeUs = MicrosAt(HugeNow)
  /\ burstStartTimeUs = MicrosAt(HugeStart)
  /\ schedule \in HugeSchedules
  /\ edgesLeft = HugeIsrCalls
  /\ callsLeft = 0
  /\ panic = FALSE
  /\ pulsePin = PULSE_MONITOR_PIN
  /\ pulseResultsQueue = 1
  /\ pulseTaskHandle = 1
  /\ queues = [QueuesInit EXCEPT ![1] =
                 [live |-> TRUE,
                  items |-> <<[FirstBurst EXCEPT !.burstActive = TRUE]>>]]
  /\ attachedPins = {PULSE_MONITOR_PIN}
  /\ firstPulseTimeUs = U32(100)
  /\ lastBurstEndTimeUs = MicrosAt(FirstBurstEnd)
  /\ edgeCount = HugeEdges
  /\ burstActive = TRUE
  /\ notifyTask = FALSE
  /\ pc = "delay"
  /\ currentTimeUs = MicrosAt(HugeSlept)
  /\ localBurstActive = TRUE
  /\ localLastEdgeTime = MicrosAt(HugeSlept)
  /\ localBurstStartTime = MicrosAt(HugeStart)
  /\ localEdgeCount = HugeEdges - 100
  /\ localFirstPulseTime = U32(100)
  /\ localNotifyTask = FALSE
  /\ result = [FirstBurst EXCEPT !.burstActive = TRUE]
  /\ previousBurstEnd = MicrosAt(FirstBurstEnd)
  /\ wasActive = TRUE
  /\ burstCounts = [ZeroArray(0) EXCEPT ![1] = 2]
  /\ frequencies = [ZeroArray(F32Zero) EXCEPT ![1] = FirstBurst.frequencyKHz]
  /\ firstPulsePeriods = [ZeroArray(Zero32) EXCEPT ![1] = U32(100)]
  /\ burstDurations = [ZeroArray(Zero32) EXCEPT ![1] = U32(2500)]
  /\ offPeriods = ZeroArray(Zero32)
  /\ avgIndex = 1
  /\ validBursts = 1
  /\ haveFirstReading = TRUE
  /\ firstPulseCount = 2
  /\ firstFrequency = FirstBurst.frequencyKHz
  /\ firstPulsePeriod = U32(100)
  /\ firstBurstDuration = U32(2500)
  /\ firstOffPeriod = Zero32
  /\ firstReadingTimestamp = MillisAt(FirstBurstEnd)
  /\ ret = [call |-> "create", ok |-> TRUE]
  /\ received = <<>>
  /\ peeking = NULL
  /\ edgeLog = <<>>
  /\ finalCount = 1
  /\ finalEdges = 4
  /\ validLog = <<SlotOf(FirstBurst)>>

\* The timer 15 ms before micros() wraps (2^32 - 15000 us), and the steps
\* that carry it across the wrap.
WrapClocks == {<<0, 65535, 50536>>}
WrapSchedules == {<<10000, 10000, 10000>>}

\* Edges of one behaviour that runs across the wrap.
WrapIsrCalls == 3

\* The module just initialized and its task just created, shortly before the
\* wrap.
InitWrap ==
  /\ clock \in WrapClocks
  /\ schedule \in WrapSchedules
  /\ edgesLeft = WrapIsrCalls
  /\ callsLeft = 0
  /\ panic = FALSE
  /\ pulsePin = PULSE_MONITOR_PIN
  /\ pulseResultsQueue = 1
  /\ pulseTaskHandle = 1
  /\ queues = [QueuesInit EXCEPT ![1] = [live |-> TRUE, items |-> <<>>]]
  /\ attachedPins = {PULSE_MONITOR_PIN}
  /\ SharedZero
  /\ pc = "delay"
  /\ delayFrom = TickCount
  /\ lastReportTime = TickCount
  /\ SnapZero
  /\ result = ResultInit
  /\ previousBurstEnd = Zero32
  /\ wasActive = FALSE
  /\ WindowZero
  /\ FirstZero
  /\ report = <<>>
  /\ ret = [call |-> "create", ok |-> TRUE]
  /\ received = <<>>
  /\ peeking = NULL
  /\ HistZero

\* The timer as a behaviour with a filled window starts: the task has just
\* finalized the latest of a train of equal bursts, one every 20 ms.
FullEnd == <<1, 10, 0>>
FullPeriodMs == 20

\* The bursts of the train: 4 edges 100 us apart, finalized by the cycle
\* that runs this long (us) after the first edge.
FullDurations == {2500, 2900}

\* The record of each burst of a train, as the cycle at FullEnd left it.
FullRecord(d) ==
  [burstDurationUs |-> U32(d), offPeriodUs |-> U32(1000 * FullPeriodMs - d),
   pulseCount |-> 2, frequencyKHz |-> FreqKHz(4, U32(d)),
   firstPulsePeriodUs |-> U32(100), timestamp |-> MillisAt(FullEnd),
   burstActive |-> FALSE, success |-> TRUE]

\* The first n slots of a window hold x, the others z.
FilledArray(n, x, z) == [i \in 1..avgWindow |-> IF i <= n THEN x ELSE z]

\* The bursts recorded so far: a few, one short of the window, the window.
FullCounts == {3, avgWindow - 1, avgWindow}

\* Edges of one behaviour that starts with a filled window.
FullIsrCalls == 3

FullSchedules == {<<10000, 10000, 10000>>}

\* The task was created 995 ms before FullEnd; its first burst exceeded
\* MAX_PULSE_COUNT and left the window empty and no first reading; since
\* then n equal bursts of the train have been recorded, the latest in the
\* cycle that just ended.  No report has been due yet.
InitFull ==
  /\ \E n \in FullCounts, d \in FullDurations :
       LET r == FullRecord(d) IN
       /\ lastEdgeTimeUs = Sub32(MicrosAt(FullEnd), U32(d - 300))
       /\ burstStartTimeUs = Sub32(MicrosAt(FullEnd), U32(d))
       /\ result = r
       /\ queues = [QueuesInit EXCEPT ![1] = [live |-> TRUE, items |-> <<r>>]]
       /\ burstCounts = FilledArray(n, r.pulseCount, 0)
       /\ frequencies = FilledArray(n, r.frequencyKHz, F32Zero)
       /\ firstPulsePeriods = FilledArray(n, r.firstPulsePeriodUs, Zero32)
       /\ burstDurations = FilledArray(n, r.burstDurationUs, Zero32)
       /\ offPeriods = FilledArray(n, r.offPeriodUs, Zero32)
       /\ avgIndex = n % avgWindow
       /\ validBursts = n
       /\ firstPulseCount = r.pulseCount
       /\ firstFrequency = r.frequencyKHz
       /\ firstPulsePeriod = r.firstPulsePeriodUs
       /\ firstBurstDuration = r.burstDurationUs
       /\ firstOffPeriod = r.offPeriodUs
       /\ firstReadingTimestamp = Sub32(MillisAt(FullEnd), U32(FullPeriodMs * (n - 1)))
       /\ finalCount = n + 1
       /\ validLog = [i \in 1..n |-> SlotOf(r)]
  /\ clock = FullEnd
  /\ schedule \in FullSchedules
  /\ edgesLeft = FullIsrCalls
  /\ callsLeft = 0
  /\ panic = FALSE
  /\ pulsePin = PULSE_MONITOR_PIN
  /\ pulseResultsQueue = 1
  /\ pulseTaskHandle = 1
  /\ attachedPins = {PULSE_MONITOR_PIN}
  /\ firstPulseTimeUs = U32(100)
  /\ lastBurstEndTimeUs = MicrosAt(FullEnd)
  /\ edgeCount = 4
  /\ burstActive = FALSE
  /\ notifyTask = FALSE
  /\ pc = "delay"
  /\ delayFrom = MillisAt(FullEnd)
  /\ lastReportTime = Sub32(MillisAt(FullEnd), U32(995))
  /\ SnapZero
  /\ previousBurstEnd = MicrosAt(FullEnd)
  /\ wasActive = FALSE
  /\ haveFirstReading = TRUE
  /\ report = <<>>
  /\ ret = [call |-> "create", ok |-> TRUE]
  /\ received = <<>>
  /\ peeking = NULL
  /\ edgeLog = <<>>
  /\ finalEdges = 4

\* Edges and timer steps of one behaviour in which the task is scheduled
\* fairly: three polling periods.
FairIsrCalls == 2
FairSchedules == {<<10000, 10000, 10000>>}

\* The module just initialized and its task just created.
InitFair ==
  /\ clock \in RunClocks
  /\ schedule \in FairSchedules
  /\ edgesLeft = FairIsrCalls
  /\ callsLeft = 0
  /\ panic = FALSE
  /\ pulsePin = PULSE_MONITOR_PIN
  /\ pulseResultsQueue = 1
  /\ pulseTaskHandle = 1
  /\ queues = [QueuesInit EXCEPT ![1] = [live |-> TRUE, items |-> <<>>]]
  /\ attachedPins = {PULSE_MONITOR_PIN}
  /\ SharedZero
  /\ pc = "delay"
  /\ delayFrom = TickCount
  /\ lastReportTime = TickCount
  /\ SnapZero
  /\ result = ResultInit
  /\ previousBurstEnd = Zero32
  /\ wasActive = FALSE
  /\ WindowZero
  /\ FirstZero
  /\ report = <<>>
  /\ ret = [call |-> "create", ok |-> TRUE]
  /\ received = <<>>
  /\ peeking = NULL
  /\ HistZero

\* ------------------------------------------------------------ behaviours

\* Time, the edges and the polling task.
Running ==
  \/ Tick
  \/ pulseBurstISR
  \/ TaskWake
  \/ TaskSnapshot
  \/ TaskBurstEnd
  \/ TaskProcessBurst
  \/ TaskBurstStart
  \/ TaskNoEvent

Next ==
  \/ Running
  \/ \E monitorPin \in Pins, allocOk \in BOOLEAN : initPulseBurstModule(monitorPin, allocOk)
  \/ \E taskOk \in BOOLEAN : createPulseBurstTask(taskOk)
  \/ \E resultIsNull \in BOOLEAN : receivePulseBurstResults(resultIsNull)
  \/ stopPulseBurstTask

Spec == Init /\ [][Next]_vars

\* The module left to run: no further public call is made.
SpecRun == InitRun /\ [][Running]_vars

\* The running module from a long burst on.
SpecLong == InitLong /\ [][Running]_vars

\* The running module across the wrap of micros().
SpecWrap == InitWrap /\ [][Running]_vars

\* The running module from a filled window on.
SpecFull == InitFull /\ [][Running]_vars

\* The running module with a burst of HugeEdges edges under way.
SpecHuge == InitHuge /\ [][Running]_vars

\* The running module with a reader that can be pre-empted between its test
\* of the queue handle and its xQueuePeek, and a caller of
\* stopPulseBurstTask.
RaceNext ==
  \/ Running
  \/ \E resultIsNull \in BOOLEAN : receiveCheck(resultIsNull)
  \/ receivePeek
  \/ stopPulseBurstTask

SpecRace == InitRace /\ [][RaceNext]_vars

\* One cycle of the polling task, whichever way it goes.
TaskStep ==
  \/ TaskWake
  \/ TaskSnapshot
  \/ TaskBurstEnd
  \/ TaskProcessBurst
  \/ TaskBurstStart
  \/ TaskNoEvent

\* The running module with the timer advancing and the polling task
\* scheduled: FreeRTOS runs a ready task, and vTaskDelay ends.
FairRun == InitFair /\ [][Running]_vars /\ WF_vars(Tick) /\ WF_vars(TaskStep)

\* ================================================================ claims

\* A step of the edge handler, and a public call.
IsrStep == edgesLeft' = edgesLeft - 1
CallStep == callsLeft' = callsLeft - 1

Timeout32 == U32(PULSE_BURST_TIMEOUT_US)

\* C1: two consecutive edges more than PULSE_BURST_TIMEOUT_US apart belong
\* to two bursts: the second edge starts a new burst (edgeCount 1,
\* burstStartTimeUs its timestamp, notifyTask set), however the edges
\* interleave with the polling task.
C1_GapStartsNewBurst ==
  [][(IsrStep /\ edgeLog # <<>>
        /\ Gt32(Sub32(Micros, lastEdgeTimeUs), Timeout32))
     => (edgeCount' = 1 /\ burstStartTimeUs' = Micros /\ notifyTask')]_vars

\* Every two consecutive edges of the log are in increasing order and less
\* than PULSE_BURST_TIMEOUT_US apart.
GapsShort(log) ==
  \A i \in 2..Len(log) :
    /\ Gt32(log[i], log[i - 1])
    /\ Gt32(Timeout32, Sub32(log[i], log[i - 1]))

\* C2: while the edges delivered since init are strictly increasing with all
\* gaps below PULSE_BURST_TIMEOUT_US, at most one burst is finalized, and the
\* edgeCount it is built from is the number of edges delivered.
C2_OneBurstCountsAllEdges ==
  (edgeLog # <<>> /\ GapsShort(edgeLog) /\ finalCount >= 1)
  => (finalCount = 1 /\ finalEdges = Len(edgeLog))

\* C3: the first edge handled after init starts a burst, whatever micros()
\* reads at that edge.
C3_FirstEdgeStartsBurst ==
  [][(IsrStep /\ edgeLog = <<>>)
     => (burstActive' /\ edgeCount' = 1 /\ firstPulseTimeUs' = Zero32
         /\ notifyTask')]_vars

\* C4: after five edges on a fresh running module, the second, third and
\* fourth 100 us after their predecessor and the fifth 2200 us after the
\* fourth (t = 0, 100, 200, 300, 2500), a first burst has been finalized with
\* edgeCount 4, pulseCount 2 and firstPulsePeriodUs 100, and the fifth edge
\* has started a second one.
C4_Scenario ==
  (/\ Len(edgeLog) = 5
   /\ \A i \in 1..3 : Sub32(edgeLog[i + 1], edgeLog[i]) = U32(100)
   /\ Sub32(edgeLog[5], edgeLog[4]) = U32(2200))
  => /\ finalCount >= 1
     /\ finalCount = 1 =>
          /\ finalEdges = 4
          /\ burstActive /\ edgeCount = 1 /\ burstStartTimeUs = edgeLog[5]
          /\ pc # "process" =>
               (result.pulseCount = 2 /\ result.firstPulsePeriodUs = U32(100))

\* C5 as claimed: burstActive holds exactly when the most recent edge is at
\* most PULSE_BURST_TIMEOUT_US old.
C5_ActiveIffRecentEdge ==
  burstActive <=>
    (edgeLog # <<>> /\ ~Gt32(Sub32(Micros, lastEdgeTimeUs), Timeout32))

\* C5 as amended: burstActive becomes true only when the handler takes an
\* edge more than PULSE_BURST_TIMEOUT_US after lastEdgeTimeUs, and becomes
\* false only in the polling task's burst-end step, on a snapshot that had
\* burstActive set and a lastEdgeTimeUs more than PULSE_BURST_TIMEOUT_US
\* before the task's clock reading (unsigned), or in initPulseBurstModule.
C5_ActiveSetAndClearedByTimeout ==
  [][/\ (~burstActive /\ burstActive')
          => (IsrStep /\ Gt32(Sub32(Micros, lastEdgeTimeUs), Timeout32))
     /\ (burstActive /\ ~burstActive')
          => \/ /\ pc = "check" /\ pc' = "process" /\ localBurstActive
                /\ Gt32(Sub32(currentTimeUs, localLastEdgeTime), Timeout32)
             \/ (CallStep /\ ret'.call = "init")]_vars

\* C5 witness: a burst stays active after its timeout has expired, until
\* the task's next cycle.
C5_Witness ==
  /\ burstActive
  /\ Gt32(Sub32(Micros, lastEdgeTimeUs), Timeout32)
  /\ finalCount >= 1

\* The step in which the task processes the burst it has just finalized.
ProcessStep == pc = "process" /\ pc' = "delay"

Hold32 == U32(FIRST_READING_MIN_DURATION_MS)

\* C6: when the task processes a finalized burst, validBursts is reset to 0
\* exactly when the record's pulseCount exceeds MAX_PULSE_COUNT, and avgIndex
\* is reset with it; a record with pulseCount <= MAX_PULSE_COUNT is written
\* into the window at avgIndex, which advances, and validBursts grows up to
\* avgWindow.
C6_ResetIffTooManyPulses ==
  [][ProcessStep =>
       /\ (validBursts' = 0) <=> (result'.pulseCount > MAX_PULSE_COUNT)
       /\ result'.pulseCount > MAX_PULSE_COUNT => avgIndex' = 0
       /\ result'.pulseCount <= MAX_PULSE_COUNT =>
            /\ burstCounts'[avgIndex + 1] = result'.pulseCount
            /\ frequencies'[avgIndex + 1] = result'.frequencyKHz
            /\ firstPulsePeriods'[avgIndex + 1] = result'.firstPulsePeriodUs
            /\ burstDurations'[avgIndex + 1] = result'.burstDurationUs
            /\ offPeriods'[avgIndex + 1] = result'.offPeriodUs
            /\ avgIndex' = (avgIndex + 1) % avgWindow
            /\ validBursts' = IF validBursts < avgWindow
                              THEN validBursts + 1 ELSE validBursts]_vars

\* C6 witness: a burst of exactly MAX_PULSE_COUNT pulses has been written
\* into the window's second slot.
C6_Witness ==
  /\ pc = "delay"
  /\ finalCount = 2
  /\ result.pulseCount = MAX_PULSE_COUNT
  /\ validBursts = 2 /\ avgIndex = 2
  /\ burstCounts[2] = MAX_PULSE_COUNT

\* C7: a burst with too many pulses processed less than
\* FIRST_READING_MIN_DURATION_MS after the first reading was stored leaves
\* the first reading as it is, and still clears the window.
C7_YoungFirstReadingKept ==
  [][(/\ ProcessStep
      /\ result'.pulseCount > MAX_PULSE_COUNT
      /\ haveFirstReading
      /\ Gt32(Hold32, Sub32(Millis, firstReadingTimestamp)))
     => /\ haveFirstReading'
        /\ UNCHANGED firstVars
        /\ validBursts' = 0 /\ avgIndex' = 0
        /\ burstCounts' = ZeroArray(0)]_vars

\* C7 witness: a burst with too many pulses has been processed less than
\* FIRST_READING_MIN_DURATION_MS after the first reading, which is held.
C7_Witness ==
  /\ pc = "delay"
  /\ finalCount = 2
  /\ result.pulseCount > MAX_PULSE_COUNT
  /\ Gt32(Hold32, Sub32(result.timestamp, firstReadingTimestamp))
  /\ haveFirstReading
  /\ validBursts = 0

\* C8: a burst with too many pulses processed FIRST_READING_MIN_DURATION_MS
\* or more after the first reading was stored (exactly that long included)
\* drops the first reading, and the next valid burst processed becomes the
\* first reading.
C8_OldFirstReadingDropped ==
  [][/\ (/\ ProcessStep
         /\ result'.pulseCount > MAX_PULSE_COUNT
         /\ haveFirstReading
         /\ Ge32(Sub32(Millis, firstReadingTimestamp), Hold32))
        => ~haveFirstReading'
     /\ (/\ ProcessStep
         /\ result'.pulseCount <= MAX_PULSE_COUNT
         /\ ~haveFirstReading)
        => /\ haveFirstReading'
           /\ firstPulseCount' = result'.pulseCount
           /\ firstReadingTimestamp' = Millis]_vars

\* The metrics in slot i of the window.
WindowSlot(i) ==
  [pulseCount |-> burstCounts[i], frequency |-> frequencies[i],
   firstPulsePeriod |-> firstPulsePeriods[i], burstDuration |-> burstDurations[i],
   offPeriod |-> offPeriods[i]]

\* C9: every slot a report sums (the first validBursts slots) holds the
\* metrics of a burst with pulseCount <= MAX_PULSE_COUNT that was processed
\* after the window was last cleared; a burst with more pulses is in none.
C9_SummedSlotsAreValidBursts ==
  /\ validBursts <= Len(validLog)
  /\ \A i \in 1..validBursts :
       /\ burstCounts[i] <= MAX_PULSE_COUNT
       /\ \E k \in 1..Len(validLog) : WindowSlot(i) = validLog[k]

\* C9 witness: after a burst with too many pulses and then a burst without
\* pulses, a report has been printed over that one burst: its mean pulse
\* count is 0.
C9_Witness ==
  /\ pc = "delay"
  /\ finalCount = 3
  /\ validLog # <<>> /\ validLog[1] # SlotOf(FirstBurst)
  /\ validBursts = 1
  /\ lastReportTime = result.timestamp
  /\ report.bursts = 1
  /\ report.avgPulseCount = F32Zero

\* C10: once stopPulseBurstTask has returned from a call made mid-burst, and
\* until another public call, no edge changes the shared burst state and
\* nothing is written to a queue.
C10_StopMidBurstFreezes ==
  [][(ret.call = "stop" /\ burstActive /\ ~CallStep)
     => UNCHANGED <<sharedVars, queues>>]_vars

\* A public call of receivePulseBurstResults, of stopPulseBurstTask.
ReceiveStep == CallStep /\ ret'.call = "receive"
StopStep == CallStep /\ ret'.call = "stop"

\* The last public call was a stopPulseBurstTask that tore the module down:
\* edges had been handled (init had succeeded) and no handler is attached.
TornDown == ret.call = "stop" /\ attachedPins = {} /\ edgeLog # <<>>

\* What receivePulseBurstResults gives on a running module whose queue is
\* empty: false, and nothing copied out.
EmptyOutcome == ret'.ok = FALSE /\ received' = received

\* C11 as claimed: a receivePulseBurstResults after the module was torn down
\* has an outcome other than the one a running module with nothing
\* published gives.
C11_StoppedReadIsDistinct ==
  [][(ReceiveStep /\ TornDown) => ~EmptyOutcome]_vars

\* C11 as amended: receivePulseBurstResults returns false and copies nothing
\* out, both after the module was torn down and on a module whose queue
\* holds nothing yet.
C11_StoppedReadFailsLikeEmpty ==
  [][ReceiveStep =>
       ((\/ TornDown
         \/ (pulseResultsQueue # NULL /\ queues[pulseResultsQueue].items = <<>>))
        => EmptyOutcome)]_vars

\* C11 witness: receivePulseBurstResults has returned false on a module that
\* was torn down.
C11_Witness ==
  /\ ret = [call |-> "receive", ok |-> FALSE]
  /\ attachedPins = {} /\ edgeLog # <<>>
  /\ pulseResultsQueue = NULL /\ pulseTaskHandle = NULL

\* C12: whenever stopPulseBurstTask returns true, no handler is attached any
\* more, the queue handle is NULL and the queue it named is deleted.
C12_StopDetachesAndReleases ==
  [][(StopStep /\ ret'.ok)
     => /\ attachedPins' = {}
        /\ pulseResultsQueue' = NULL
        /\ pulseResultsQueue # NULL => ~queues'[pulseResultsQueue].live]_vars

\* C13 as claimed: once stopPulseBurstTask has torn the module down, the next
\* step, whatever public call it is, leaves it without a handler attached
\* and without a task.
C13_StoppedIsTerminal ==
  [][TornDown => (attachedPins' = {} /\ pc' = "none")]_vars

\* The module is not operating: no handler attached, no task, no queue.
Inoperative ==
  /\ attachedPins = {}
  /\ pulseTaskHandle = NULL /\ pc = "none"
  /\ pulseResultsQueue = NULL

\* C13 as amended: a module that is not operating (torn down, or never
\* initialised) stays so, handles no edge and publishes nothing, until an
\* initPulseBurstModule succeeds; no other public call brings it back.
C13_DownUntilInitSucceeds ==
  [][(Inoperative /\ ~(CallStep /\ ret' = [call |-> "init", ok |-> TRUE]))
     => (Inoperative' /\ UNCHANGED <<sharedVars, queues>>)]_vars

\* C13 witness: on a module that was torn down, createPulseBurstTask has
\* failed and the module is still not operating.
C13_Witness ==
  /\ Inoperative
  /\ edgeLog # <<>>
  /\ ret = [call |-> "create", ok |-> FALSE]

\* The step in which the task publishes: the end of the burst-end branch, or
\* the burst-start branch.
PublishStep ==
  \/ ProcessStep
  \/ (pc = "check" /\ pc' = "delay" /\ ~wasActive /\ wasActive')

\* C14: no queue ever holds more than one item, and every publish of the
\* task on a module with a queue succeeds and leaves in the queue exactly
\* the record just published, whatever the queue held and whether or not it
\* was read.
C14_SlotHoldsLatestPublish ==
  [][/\ \A q \in 1..MaxQueues : Len(queues'[q].items) <= 1
     /\ (PublishStep /\ pulseResultsQueue # NULL)
          => (queues'[pulseResultsQueue].items = <<result'>> /\ ~panic')]_vars

\* C14 witness: a reader has copied out the burst-start status, the task has
\* since published the record of the finalized burst, and the queue holds
\* that record alone.
C14_Witness ==
  /\ pc = "delay"
  /\ finalCount >= 1
  /\ pulseResultsQueue # NULL
  /\ queues[pulseResultsQueue].items = <<result>>
  /\ ~result.burstActive
  /\ received # <<>> /\ received[1].burstActive

\* C15: a receivePulseBurstResults changes neither the queue nor anything
\* else of the module and the task; what it copies out when it returns true
\* is the item the queue holds, and with a valid pointer it returns true
\* whenever the queue holds an item.  So successive reads without a publish
\* in between return the same record, and the next publish finds the queue
\* as the last one left it.
C15_ReadLeavesSlot ==
  [][/\ ReceiveStep
          => /\ UNCHANGED <<moduleVars, sharedVars, taskVars>>
             /\ IF ret'.ok
                THEN /\ pulseResultsQueue # NULL
                     /\ queues[pulseResultsQueue].items # <<>>
                     /\ received' = queues'[pulseResultsQueue].items
                ELSE received' = received
     /\ (/\ receivePulseBurstResults(FALSE)
         /\ pulseResultsQueue # NULL
         /\ queues[pulseResultsQueue].items # <<>>)
          => ret'.ok]_vars

\* C15 witness: a read has succeeded and the queue still holds the record it
\* copied out.
C15_Witness ==
  /\ ret = [call |-> "receive", ok |-> TRUE]
  /\ pulseResultsQueue # NULL
  /\ received # <<>>
  /\ queues[pulseResultsQueue].items = received

\* C16: the record of every finalized burst, as the task holds it and as it
\* publishes it, has for pulseCount the integer half of the edgeCount the
\* task snapshotted for that burst.
C16_PulseCountIsHalfEdgeCount ==
  [][ProcessStep
     => /\ result'.pulseCount = finalEdges \div 2
        /\ pulseResultsQueue # NULL
             => queues'[pulseResultsQueue].items[1].pulseCount = finalEdges \div 2]_vars

\* C16 witness: a burst of 5 edges has been finalized as 2 pulses.
C16_Witness ==
  /\ pc = "delay"
  /\ finalEdges = 5
  /\ result.pulseCount = 2
  /\ queues[pulseResultsQueue].items = <<result>>

\* C17: the record of a finalized burst has for offPeriodUs the time of the
\* burst's first edge minus the time at which the task finalized the burst
\* before it (modulo 2^32), and 0 when it is the first burst finalized after
\* init.
C17_OffPeriodIsGapToFinalize ==
  [][ProcessStep
     => result'.offPeriodUs = IF finalCount = 1
                              THEN Zero32
                              ELSE Sub32(localBurstStartTime, previousBurstEnd)]_vars

\* The first reading (baseline) holds the metrics of record r, captured now.
FirstReadingIs(r) ==
  /\ firstPulseCount' = r.pulseCount
  /\ firstFrequency' = r.frequencyKHz
  /\ firstPulsePeriod' = r.firstPulsePeriodUs
  /\ firstBurstDuration' = r.burstDurationUs
  /\ firstOffPeriod' = r.offPeriodUs
  /\ firstReadingTimestamp' = Millis

\* C18: while a first reading is held its metrics and its timestamp do not
\* change, whatever bursts are finalized; a first reading comes to be held
\* only by the task finalizing a valid burst while none is held, and it is
\* that burst's record; a valid burst finalized while none is held is
\* always captured.
C18_BaselineHeldUnchanged ==
  [][/\ (haveFirstReading /\ haveFirstReading') => UNCHANGED firstVars
     /\ (~haveFirstReading /\ haveFirstReading')
          => /\ ProcessStep
             /\ ~TooManyPulses(result'.pulseCount)
             /\ FirstReadingIs(result')
     /\ (ProcessStep /\ ~haveFirstReading /\ ~TooManyPulses(result'.pulseCount))
          => haveFirstReading']_vars

\* C18 witness: a second valid burst (40 pulses) has been finalized and
\* recorded while the first reading (2 pulses) is held.
C18_Witness ==
  /\ pc = "delay"
  /\ finalCount = 2
  /\ validBursts = 2
  /\ result.pulseCount = 40
  /\ haveFirstReading
  /\ firstPulseCount = 2
  /\ firstReadingTimestamp = MillisAt(FirstBurstEnd)

\* The slot no valid burst has been written to since the window was cleared.
EmptySlot ==
  [pulseCount |-> 0, frequency |-> F32Zero, firstPulsePeriod |-> Zero32,
   burstDuration |-> Zero32, offPeriod |-> Zero32]

\* The latest of the valid bursts recorded since the last invalidation that
\* was written to slot i (slots count from 1 here, from 0 in the code).
LastWrite(i) ==
  CHOOSE k \in 1..Len(validLog) :
    (k - 1) % avgWindow = i - 1 /\ k > Len(validLog) - avgWindow

\* C19: validBursts is within 0..avgWindow and avgIndex within
\* 0..avgWindow-1; validBursts is the number of valid bursts recorded since
\* the last invalidation, capped at avgWindow; every slot a report reads
\* (the first validBursts) holds the latest burst written to it since then;
\* and while validBursts < avgWindow, avgIndex = validBursts, the slots
\* written are the first validBursts in order, and the others are empty.
C19_WindowWithinBounds ==
  /\ validBursts \in 0..avgWindow
  /\ avgIndex \in 0..(avgWindow - 1)
  /\ validBursts = IF Len(validLog) < avgWindow THEN Len(validLog) ELSE avgWindow
  /\ avgIndex = Len(validLog) % avgWindow
  /\ \A i \in 1..validBursts : WindowSlot(i) = validLog[LastWrite(i)]
  /\ validBursts < avgWindow
       => /\ avgIndex = validBursts
          /\ \A i \in 1..validBursts : WindowSlot(i) = validLog[i]
          /\ \A i \in (validBursts + 1)..avgWindow : WindowSlot(i) = EmptySlot
  /\ report # <<>> => report.bursts \in 1..avgWindow

\* C19 witness: the window was full and one more valid burst has been
\* recorded: it went to slot 0, over the oldest, and validBursts stays 10.
C19_Witness ==
  /\ pc = "delay"
  /\ validBursts = avgWindow
  /\ avgIndex = 1
  /\ Len(validLog) = avgWindow + 1
  /\ WindowSlot(1) = validLog[avgWindow + 1]
  /\ WindowSlot(1) # validLog[1]

\* A cycle of the task that ends with the periodic report.
ReportStep == pc \in {"check", "process"} /\ lastReportTime' # lastReportTime

\* Every valid slot of the window holds the same metrics.
Uniform == \A i \in 1..validBursts : WindowSlot(i) = WindowSlot(1)

\* C20: a report made while every valid slot of the window holds the same
\* metrics gives, for each metric, that value itself (as a float) as mean.
C20_UniformMeanIsExact ==
  [][(ReportStep /\ Uniform')
     => /\ report'.avgPulseCount = F32FromNat(burstCounts'[1])
        /\ report'.avgFrequency = frequencies'[1]
        /\ report'.avgFirstPulsePeriod = F32FromU32(firstPulsePeriods'[1])
        /\ report'.avgBurstDuration = F32FromU32(burstDurations'[1])
        /\ report'.avgOffPeriod = F32FromU32(offPeriods'[1])]_vars

\* A call of createPulseBurstTask.
CreateStep == CallStep /\ ret'.call = "create"

\* No successful initPulseBurstModule yet (no public call has been made, or
\* the module is as the static initialisers leave it), or
\* stopPulseBurstTask has released the module.
NotInitialized == callsLeft = BootCalls \/ Inoperative \/ TornDown

\* C21: createPulseBurstTask called before a successful
\* initPulseBurstModule, or after stopPulseBurstTask released the module,
\* returns false and creates no task; receivePulseBurstResults called in
\* those states returns false and delivers nothing.
C21_NotInitializedFails ==
  [][/\ (CreateStep /\ NotInitialized)
          => /\ ret'.ok = FALSE
             /\ pulseTaskHandle' = NULL
             /\ pc' = "none"
             /\ UNCHANGED <<moduleVars, taskVars>>
     /\ (ReceiveStep /\ NotInitialized) => EmptyOutcome]_vars

\* C21 witness: createPulseBurstTask, called first of all, has failed and
\* there is no task.
C21_Witness ==
  /\ callsLeft = BootCalls - 1
  /\ ret = [call |-> "create", ok |-> FALSE]
  /\ pulseTaskHandle = NULL
  /\ pc = "none"

\* A call of initPulseBurstModule that returns false.
InitFailStep == CallStep /\ ret' = [call |-> "init", ok |-> FALSE]

\* C22: initPulseBurstModule that fails returns false and leaves the
\* results-queue handle NULL, no queue allocated and no edge interrupt
\* attached; a createPulseBurstTask that follows it fails.
C22_FailedInitLeavesNothing ==
  [][/\ InitFailStep
          => /\ pulseResultsQueue' = NULL
             /\ \A q \in 1..MaxQueues : ~queues'[q].live
             /\ attachedPins' = {}
     /\ (CreateStep /\ ret = [call |-> "init", ok |-> FALSE]) => ret'.ok = FALSE]_vars

\* The snapshot step of the task's cycle.
SnapshotStep == pc = "snap" /\ pc' = "check"

\* C23: the six locals the snapshot fills are the shared fields as they are
\* at the instant of the snapshot, which lies between two complete
\* executions of pulseBurstISR (the time of the latest edge logged, one
\* edge in a burst of one edge, no first pulse period before the third
\* edge); notifyTask is cleared by the same step, which changes no other
\* shared field.
C23_SnapshotIsConsistent ==
  [][SnapshotStep
     => /\ <<localBurstActive', localLastEdgeTime', localBurstStartTime',
             localEdgeCount', localFirstPulseTime', localNotifyTask'>>
           = <<burstActive, lastEdgeTimeUs, burstStartTimeUs, edgeCount,
               firstPulseTimeUs, notifyTask>>
        /\ notifyTask' = FALSE
        /\ UNCHANGED <<lastEdgeTimeUs, firstPulseTimeUs, burstStartTimeUs,
                       lastBurstEndTimeUs, edgeCount, burstActive>>
        /\ edgeLog # <<>> => localLastEdgeTime' = edgeLog[Len(edgeLog)]
        /\ (localBurstActive' /\ localEdgeCount' = 1)
             => localLastEdgeTime' = localBurstStartTime'
        /\ (localBurstActive' /\ localEdgeCount' < 3)
             => localFirstPulseTime' = Zero32]_vars

\* C23 witness: the snapshot was taken after the second edge of a burst and
\* a third edge has come since: the locals are those of the second edge.
C23_Witness ==
  /\ pc = "check"
  /\ localBurstActive
  /\ localEdgeCount = 2
  /\ edgeCount = 3
  /\ localLastEdgeTime = edgeLog[Len(edgeLog) - 1]
  /\ localLastEdgeTime # lastEdgeTimeUs

\* The step by which the task decides that a burst has ended.
FinalizeStep == pc = "check" /\ pc' = "process"

\* Time a is later than time b (both uint32_t, less than 2^31 us apart).
Later32(a, b) == a # b /\ Sub32(a, b)[1] < 32768

\* C24: the task finalizes a burst only when more than
\* PULSE_BURST_TIMEOUT_US has elapsed since the latest edge in its snapshot:
\* that edge is not later than the task's reading of the clock, and the
\* clock is now more than the timeout past it.
C24_FinalizeOnlyAfterTimeout ==
  [][FinalizeStep
     => /\ ~Later32(localLastEdgeTime, currentTimeUs)
        /\ Gt32(Sub32(Micros, localLastEdgeTime), Timeout32)]_vars

\* C25: while the task runs no edge is dropped: every execution of
\* pulseBurstISR either opens a burst (edgeCount 1) or adds one to the
\* edgeCount of the burst under way, and a burst is finalized with all the
\* edges the handler has counted for it, those handled after the task's
\* snapshot included.
C25_NoEdgeDropped ==
  [][/\ (IsrStep /\ pulseTaskHandle # NULL)
          => \/ ~burstActive /\ burstActive' /\ edgeCount' = 1
             \/ burstActive /\ burstActive' /\ edgeCount' = edgeCount + 1
     /\ FinalizeStep => finalEdges' = edgeCount]_vars

\* A burst is under way, no further edge will come, the task is in
\* vTaskDelay and will stay there until the timer has made its last step.
BurstLeftAlone ==
  /\ burstActive
  /\ edgesLeft = 0
  /\ pc = "delay"
  /\ Len(schedule) = 1
  /\ ~Ge32(Sub32(TickCount, delayFrom), U32(PollDelayTicks))

\* The burst has been finalized and its record published.
BurstFinalized ==
  /\ ~burstActive
  /\ pc = "delay"
  /\ ~result.burstActive
  /\ result.success
  /\ queues[pulseResultsQueue].items = <<result>>

\* C26: a burst under way that gets no further edge is finalized once the
\* task is scheduled: shared burstActive becomes false and a record with
\* burstActive = false is published; this happens in the first cycle whose
\* reading of the clock is more than PULSE_BURST_TIMEOUT_US after the latest
\* edge of the snapshot.
C26_BurstEventuallyFinalized ==
  /\ [][(/\ pc = "check"
         /\ pc' # "check"
         /\ localBurstActive
         /\ ~Later32(localLastEdgeTime, currentTimeUs)
         /\ Gt32(Sub32(currentTimeUs, localLastEdgeTime), Timeout32))
        => (pc' = "process" /\ ~burstActive')]_vars
  /\ BurstLeftAlone ~> BurstFinalized

\* C26 witness: a burst of two edges or more is under way, all edges have
\* come, and the task sleeps until the timer's last step.
C26_Witness == BurstLeftAlone /\ edgeCount >= 2 /\ finalCount = 0

\* C27: a finalization clears a shared burstActive that was set, so no
\* burst is finalized twice; the task then goes on to nothing but the
\* processing of that burst, which puts one record in the slot: the task's
\* result, with burstActive = false, success = true and the metrics of the
\* burst as snapshotted, whether or not the burst is kept for the window;
\* the slot changes at no other step than a publish.
C27_FinalizationPublishesOnce ==
  [][/\ FinalizeStep => (burstActive /\ ~burstActive')
     /\ (pc = "process" /\ pc' # pc) => ProcessStep
     /\ ProcessStep
          => /\ queues'[pulseResultsQueue].items = <<result'>>
             /\ ~result'.burstActive
             /\ result'.success
             /\ result'.pulseCount = finalEdges \div 2
             /\ result'.firstPulsePeriodUs = localFirstPulseTime
             /\ result'.frequencyKHz = FreqKHz(finalEdges, result'.burstDurationUs)
             /\ result'.timestamp = Millis
             /\ ~panic'
     /\ queues' # queues => PublishStep]_vars

\* C27 witness: a burst of 41 pulses has been finalized and rejected from
\* the window, and its record is in the slot.
C27_Witness ==
  /\ pc = "delay"
  /\ finalCount = 2
  /\ result.pulseCount = MAX_PULSE_COUNT + 1
  /\ validBursts = 0
  /\ ~burstActive
  /\ queues[pulseResultsQueue].items = <<result>>

\* The step in which the task publishes the 'burst started' status.
BurstStartStep == pc = "check" /\ pc' = "delay" /\ ~wasActive /\ wasActive'

\* C28: the status the task publishes when it detects the start of a burst
\* has burstActive = true and no metrics: pulseCount, burstDurationUs,
\* offPeriodUs, frequencyKHz and firstPulsePeriodUs are all zero.
C28_StartStatusHasNoMetrics ==
  [][BurstStartStep
     => /\ queues'[pulseResultsQueue].items = <<result'>>
        /\ result'.burstActive
        /\ result'.pulseCount = 0
        /\ result'.burstDurationUs = Zero32
        /\ result'.offPeriodUs = Zero32
        /\ result'.frequencyKHz = F32Zero
        /\ result'.firstPulsePeriodUs = Zero32]_vars

\* The handler opens a burst.
OpenStep == IsrStep /\ ~burstActive /\ burstActive'

SlotActive ==
  /\ queues[pulseResultsQueue].items # <<>>
  /\ queues[pulseResultsQueue].items[1].burstActive

\* C30: at the end of every cycle of the task (the task is in vTaskDelay),
\* if the slot holds a status with burstActive = true then the shared
\* burstActive is true; the task's wasActive is true exactly when the slot
\* holds such a status, so wasActive implies shared burstActive too.
C30_PublishedActiveImpliesBurstActive ==
  pc = "delay"
    => /\ SlotActive => burstActive
       /\ wasActive => burstActive
       /\ wasActive <=> SlotActive

\* C30 witness: a cycle has ended with the 'burst started' status in the
\* slot and the burst still under way.
C30_Witness ==
  /\ pc = "delay"
  /\ SlotActive
  /\ wasActive
  /\ burstActive
  /\ edgeCount >= 2

\* ------------------------------------------------------------------ C31

\* A call of initPulseBurstModule returns.
InitStep == CallStep /\ ret'.call = "init"

\* C31 as stated: burstActive goes from true to false only in the polling
\* task's burst-end branch; the handler never clears it and the task never
\* sets it.
C31_OnlyBurstEndClears ==
  [][/\ (burstActive /\ ~burstActive') => FinalizeStep
     /\ (~burstActive /\ burstActive') => OpenStep]_vars

\* C31: burstActive goes from true to false only in the polling task's
\* burst-end branch or in initPulseBurstModule's reset of the tracking
\* variables; the handler never clears it, and only the handler, opening a
\* burst, sets it.
C31_OnlyBurstEndOrInitClears ==
  [][/\ (burstActive /\ ~burstActive') => (FinalizeStep \/ InitStep)
     /\ IsrStep => (burstActive => burstActive')
     /\ (~burstActive /\ burstActive') => OpenStep
     /\ FinalizeStep => ~burstActive']_vars

\* The task has closed one burst, the handler has opened the next, and a
\* call of initPulseBurstModule has cleared the flag again.
C31_Witness ==
  /\ finalCount >= 1
  /\ ret = [call |-> "init", ok |-> TRUE]
  /\ ~burstActive
  /\ pc # "none"

\* ------------------------------------------------------------------ C32

\* C32: the record of a finalized burst has for burstDurationUs the task's
\* reading of the clock minus the burst's start, and for offPeriodUs the
\* burst's start minus the end of the previous burst, both modulo 2^32, also
\* when micros() wrapped in between.
C32_DeltasAreModular ==
  [][ProcessStep
     => /\ result'.burstDurationUs = Sub32(currentTimeUs, localBurstStartTime)
        /\ finalCount > 1
           => result'.offPeriodUs =
                Sub32(localBurstStartTime, previousBurstEnd)]_vars

\* ------------------------------------------------------------------ C33

\* C33: every edge that joins a burst raises edgeCount by one, so the count
\* never wraps to a smaller one; and a burst finalized with
\* 2 * MAX_PULSE_COUNT + 2 edges or more is processed as an outlier: the
\* window is cleared and its record is not written.  Hence no burst of
\* 65536 + k edges is reported as one of k edges.
C33_LongBurstIsOutlier ==
  [][/\ (IsrStep /\ burstActive) => edgeCount' = edgeCount + 1
     /\ (ProcessStep /\ finalEdges >= 2 * MAX_PULSE_COUNT + 2)
        => validBursts' = 0 /\ avgIndex' = 0]_vars

\* ------------------------------------------------------------------ C34

\* The time of the latest execution of the handler.
LastEdge == edgeLog[Len(edgeLog)]

\* C34: the third edge of a burst sets firstPulseTimeUs to its time minus
\* the time of the second edge; with fewer than three edges the value is 0;
\* edges after the third leave it alone; and the record of a finalized burst
\* carries in firstPulsePeriodUs the value the handler holds for that burst
\* when the task finalizes it.
C34_FirstPulsePeriodIsThirdMinusSecond ==
  [][/\ (IsrStep /\ burstActive /\ edgeCount = 2)
        => firstPulseTimeUs' = Sub32(Micros, LastEdge)
     /\ (IsrStep /\ burstActive' /\ edgeCount' < 3)
        => firstPulseTimeUs' = Zero32
     /\ (IsrStep /\ burstActive /\ edgeCount >= 3)
        => firstPulseTimeUs' = firstPulseTimeUs
     /\ FinalizeStep => localFirstPulseTime = firstPulseTimeUs
     /\ ProcessStep => result'.firstPulsePeriodUs = localFirstPulseTime]_vars

\* ------------------------------------------------------------------ C35

\* The slot (counted from 1) the k-th valid burst since the last
\* invalidation was written to.
SlotOfWrite(k) == ((k - 1) % avgWindow) + 1

\* The valid bursts since the last invalidation that are among the latest
\* avgWindow of them.
Recent == {k \in 1..Len(validLog) : k > Len(validLog) - avgWindow}

\* The task records a valid burst while the window is full.
RecordWhenFull ==
  /\ ProcessStep
  /\ validBursts = avgWindow
  /\ result'.pulseCount <= MAX_PULSE_COUNT

\* C35: while validBursts = avgWindow the slots hold exactly the avgWindow
\* most recent valid bursts, each in the slot it was written to; a valid
\* burst recorded then goes to the slot that held the oldest of them, and
\* every other slot is left as it was.
C35_FullWindowHoldsMostRecent ==
  [][/\ validBursts' = avgWindow
        => /\ Cardinality(Recent') = avgWindow
           /\ \A k \in Recent' : WindowSlot(SlotOfWrite(k))' = validLog'[k]
     /\ RecordWhenFull
        => /\ validBursts' = avgWindow
           /\ WindowSlot(avgIndex + 1) = validLog[Len(validLog) - avgWindow + 1]
           /\ \A i \in 1..avgWindow :
                WindowSlot(i)' = IF i = avgIndex + 1
                                 THEN SlotOf(result')
                                 ELSE WindowSlot(i)]_vars

\* C35 witness: the window was full and one more valid burst has been
\* recorded: the oldest of the earlier ones is gone, the nine after it are
\* where they were.
C35_Witness ==
  /\ pc = "delay"
  /\ validBursts = avgWindow
  /\ Len(validLog) = avgWindow + 1
  /\ WindowSlot(1) = SlotOf(result)
  /\ WindowSlot(1) # validLog[1]
  /\ \A i \in 2..avgWindow : WindowSlot(i) = validLog[i]

\* ------------------------------------------------------------------ C36

\* C36: stopPulseBurstTask called while the task runs detaches the handler,
\* deletes the task, deletes the queue and clears its handle: in the state
\* it leaves, no handler is attached, so pulseBurstISR cannot execute; no
\* task exists, so nothing can be published; and the queue the handle named
\* is released.
C36_StopLeavesNoIsrNoTask ==
  [][(StopStep /\ pulseTaskHandle # NULL)
     => /\ attachedPins' = {}
        /\ pulseTaskHandle' = NULL /\ pc' = "none"
        /\ pulseResultsQueue' = NULL
        /\ pulseResultsQueue # NULL => ~queues'[pulseResultsQueue].live]_vars

\* ------------------------------------------------------------------ C37

\* C37: the queue a reader has handed to xQueuePeek stays allocated until
\* the peek returns: no stopPulseBurstTask releases it in between, so
\* receivePulseBurstResults never operates on a deleted queue.
C37_ReaderQueueStaysLive == peeking # NULL => queues[peeking].live

\* ------------------------------------------------------------------ C38

\* The queues allocated and not deleted.
LiveQueues == {q \in 1..MaxQueues : queues[q].live}

\* C38: at most one queue created by initPulseBurstModule is allocated and
\* not deleted at any time, and it is the one pulseResultsQueue names; a
\* call of initPulseBurstModule on a module whose handle names a queue
\* releases that queue before the handle is overwritten.
C38_AtMostOneQueue ==
  [][/\ Cardinality(LiveQueues') <= 1
     /\ LiveQueues' \subseteq {pulseResultsQueue'}
     /\ (InitStep /\ pulseResultsQueue # NULL
           /\ pulseResultsQueue' # pulseResultsQueue)
        => ~queues'[pulseResultsQueue].live]_vars

\* ------------------------------------------------------------------ C39

\* C39: whenever a first reading is held its pulse count is greater than 0;
\* in particular a report that prints the change against the first reading
\* divides by a pulse count that is not 0.
C39_BaselinePulseCountPositive ==
  [][/\ haveFirstReading' => firstPulseCount' > 0
     /\ (ReportStep /\ report'.first) => firstPulseCount' # 0]_vars

\* ------------------------------------------------------------------ C40

\* A uint32_t below 2^30 as a number.
Nat32(a) == a[1] * W16 + a[2]

\* p / q (p > 0, q > 0) is a value float has: the quotient's bits end within
\* the 24 of the significand.
RatIsFloat(p, q) ==
  LET up == NormUp(p, q, 0)
      dn == NormDown(up[1], q, up[2])
  IN  DivBits(up[1] - dn[1], dn[1], 23, 1)[2] = 0

\* The distance of two positive floats in units of the last place of the
\* one with the smaller exponent (2^24 stands for `far apart').
UlpDist(a, b) ==
  IF a.e = b.e THEN (IF a.m >= b.m THEN a.m - b.m ELSE b.m - a.m)
  ELSE IF a.e = b.e + 1 THEN 2 * a.m - b.m
  ELSE IF b.e = a.e + 1 THEN 2 * b.m - a.m
  ELSE Pow2(24)

\* The record just finalized has no frequency: fewer than 4 edges in the
\* snapshot, or a duration of 0.
NoFrequency ==
  finalEdges < 4 \/ result'.burstDurationUs = Zero32

\* The record's pulse count times 10^6, and its duration, as numbers.
PulsesE6 == result'.pulseCount * 1000 * 1000
DurationUs == Nat32(result'.burstDurationUs)

====
